---- MODULE Spec2Model ----
(***************************************************************************)
(* A model of the competitive-intelligence pipeline's validated data       *)
(* model: the Product and Promotion record schemas (pydantic models with   *)
(* validate_assignment), the ProductList / PromotionList aggregates and    *)
(* the URL normalisation primitive.                                        *)
(*                                                                         *)
(* Text is a sequence of one-character strings.  An optional value is a    *)
(* sequence of length 0 (None) or 1 (the value).  Decimal and float        *)
(* quantities are integers counted in thousandths.                         *)
(***************************************************************************)
EXTENDS Integers, Sequences, FiniteSets, TLC

VARIABLES
    productInput,   \* keyword arguments of the last Product(...) call
    product,        \* the last constructed Product, None before/after a failure
    productError,   \* fields whose validation raised in the last Product call/assignment
    productAssigns, \* number of attribute assignments made to `product`
    prevProduct,    \* the Product constructed before `product`
    promoInput,     \* keyword arguments of the last Promotion(...) call
    promotion,      \* the last constructed Promotion
    promoError,     \* fields whose validation raised in the last Promotion call/assignment
    promoAssigns,   \* number of attribute assignments made to `promotion`
    productList,    \* a ProductList instance
    promotionList,  \* a PromotionList instance
    successRate,    \* what the last get_success_rate() call returned, and on which list
    urlA, urlB,     \* the components of two URL strings given to normalize_url
    normA, normB,   \* what normalize_url returned (or raised) for them
    today,          \* the current day (date.today(), datetime.utcnow()), as a day number
    lastCall,       \* the last call of a method or function that returns a value: what, on what, result
    scenario,       \* a pipeline run's surroundings: credentials, competitor file, extractor answers
    pc,             \* where the pipeline run stands
    cur,            \* index of the competitor being processed
    urlQueue,       \* scrape_competitor_urls: the URLs still to scrape
    inFlight,       \* number of scrape requests sent and not yet answered
    scraped,        \* scrape_competitor_urls: results
    pages,          \* process_competitor: the pages still to extract from
    competitor_products,   \* process_competitor: products of the current competitor
    competitor_promotions, \* process_competitor: promotions of the current competitor
    all_products,   \* CompetitorMonitorPipeline.all_products
    all_promotions, \* CompetitorMonitorPipeline.all_promotions
    product_csv,    \* the rows written to new_products.csv, None while unwritten
    promotion_csv,  \* the rows written to current_promotions.csv, None while unwritten
    events,         \* what the run did to the outside: fetches, pauses, extractor calls, CSV writes
    runResult       \* what run_full_pipeline returned (or that the constructor raised)

vars == <<productInput, product, productError, productAssigns, prevProduct,
          promoInput, promotion, promoError, promoAssigns,
          productList, promotionList, successRate, urlA, urlB, normA, normB, today,
          lastCall, scenario, pc, cur, urlQueue, inFlight, scraped, pages,
          competitor_products, competitor_promotions, all_products, all_promotions,
          product_csv, promotion_csv, events, runResult>>

productVars == <<productInput, product, productError, productAssigns, prevProduct>>
promoVars   == <<promoInput, promotion, promoError, promoAssigns>>
listVars    == <<productList, promotionList, successRate>>
urlVars     == <<urlA, urlB, normA, normB>>
pipeVars    == <<scenario, pc, cur, urlQueue, inFlight, scraped, pages,
                 competitor_products, competitor_promotions, all_products, all_promotions,
                 product_csv, promotion_csv, events, runResult>>

-----------------------------------------------------------------------------
(* Optional values and fixed-point numbers                                  *)

None == <<>>
Some(x) == <<x>>
IsNone(o) == o = <<>>
Get(o) == o[1]

\* n units as thousandths
Mills(n) == n * 1000

-----------------------------------------------------------------------------
(* Python str operations on character sequences                             *)

Repeat(c, n) == [i \in 1..n |-> c]

LowerLetters == <<"a","b","c","d","e","f","g","h","i","j","k","l","m",
                  "n","o","p","q","r","s","t","u","v","w","x","y","z">>
UpperLetters == <<"A","B","C","D","E","F","G","H","I","J","K","L","M",
                  "N","O","P","Q","R","S","T","U","V","W","X","Y","Z">>

\* str.upper() / str.lower() of one character
UpperChar(c) ==
    IF \E i \in 1..Len(LowerLetters) : LowerLetters[i] = c
    THEN UpperLetters[CHOOSE i \in 1..Len(LowerLetters) : LowerLetters[i] = c]
    ELSE c
LowerChar(c) ==
    IF \E i \in 1..Len(UpperLetters) : UpperLetters[i] = c
    THEN LowerLetters[CHOOSE i \in 1..Len(UpperLetters) : UpperLetters[i] = c]
    ELSE c
Upper(s) == [i \in 1..Len(s) |-> UpperChar(s[i])]
Lower(s) == [i \in 1..Len(s) |-> LowerChar(s[i])]

\* s[i:] and s[:i] with Python's 0-based slice bounds
From(s, i) == SubSeq(s, i + 1, Len(s))
Upto(s, i) == SubSeq(s, 1, i)

\* s.startswith(p)
StartsWith(s, p) == Len(s) >= Len(p) /\ SubSeq(s, 1, Len(p)) = p

\* the characters for which str.isspace() holds, among those used
Spaces == {" ", "\t", "\n"}

\* the least index >= i of s whose character is in C, or Len(s) + 1
FirstIn(s, i, C) ==
    CHOOSE j \in i..(Len(s) + 1) :
        /\ (j = Len(s) + 1 \/ s[j] \in C)
        /\ \A k \in i..(j - 1) : s[k] \notin C

\* the least index >= i of s whose character is not in C, or Len(s) + 1
FirstNotIn(s, i, C) ==
    CHOOSE j \in i..(Len(s) + 1) :
        /\ (j = Len(s) + 1 \/ s[j] \notin C)
        /\ \A k \in i..(j - 1) : s[k] \in C

\* the greatest index of s whose character is in C, or 0
LastIn(s, C) ==
    CHOOSE j \in 0..Len(s) :
        /\ (j = 0 \/ s[j] \in C)
        /\ \A k \in (j + 1)..Len(s) : s[k] \notin C

\* the greatest index of s whose character is not in C, or 0
LastNotIn(s, C) ==
    CHOOSE j \in 0..Len(s) :
        /\ (j = 0 \/ s[j] \notin C)
        /\ \A k \in (j + 1)..Len(s) : s[k] \in C

\* s.strip()
Strip(s) ==
    LET b == FirstNotIn(s, 1, Spaces)
        e == LastNotIn(s, Spaces)
    IN  IF b > Len(s) THEN <<>> ELSE SubSeq(s, b, e)

\* s.split(): the maximal runs of non-whitespace characters, in order
RECURSIVE SplitFrom(_, _)
SplitFrom(s, i) ==
    LET b == FirstNotIn(s, i, Spaces)
    IN  IF b > Len(s) THEN <<>>
        ELSE LET e == FirstIn(s, b, Spaces)
             IN  <<SubSeq(s, b, e - 1)>> \o SplitFrom(s, e)
Split(s) == SplitFrom(s, 1)

\* sep.join(words)
RECURSIVE Join(_, _)
Join(sep, words) ==
    IF words = <<>> THEN <<>>
    ELSE IF Len(words) = 1 THEN words[1]
    ELSE words[1] \o sep \o Join(sep, Tail(words))

\* ' '.join(v.split())
CollapseWhitespace(s) == Join(<<" ">>, Split(s))

-----------------------------------------------------------------------------
(* URL text: the split every URL parser here starts from                    *)

TxtHttp   == <<"h","t","t","p">>
TxtHttps  == <<"h","t","t","p","s">>
TxtSep    == <<":","/","/">>
TxtNone   == <<"N","o","n","e">>

Digits == <<"0","1","2","3","4","5","6","7","8","9">>
IsDigit(c) == \E i \in 1..Len(Digits) : Digits[i] = c
DigitVal(c) == (CHOOSE i \in 1..Len(Digits) : Digits[i] = c) - 1

\* int(s) of a non-empty string of ASCII digits
RECURSIVE ToInt(_)
ToInt(s) == IF s = <<>> THEN 0 ELSE 10 * ToInt(Upto(s, Len(s) - 1)) + DigitVal(s[Len(s)])

\* The pieces of "<scheme>://<netloc><path>[?<query>][#<fragment>]" for a text
\* that starts with "<scheme>://": the netloc runs to the first of / ? #, the
\* fragment starts at the first #, the query at the first ? before it.
SplitUrl(scheme, url) ==
    LET rest     == From(url, Len(scheme) + Len(TxtSep))
        d        == FirstIn(rest, 1, {"/", "?", "#"})
        netloc   == Upto(rest, d - 1)
        tail     == From(rest, d - 1)
        h        == FirstIn(tail, 1, {"#"})
        fragment == From(tail, h)
        beforeH  == Upto(tail, h - 1)
        q        == FirstIn(beforeH, 1, {"?"})
        query    == From(beforeH, q)
        path     == Upto(beforeH, q - 1)
    IN  [scheme |-> scheme, netloc |-> netloc, path |-> path,
         query |-> query, fragment |-> fragment]

\* netloc.rpartition('@')[2]
HostInfo(netloc) == From(netloc, LastIn(netloc, {"@"}))

\* _hostinfo of a netloc without brackets: hostinfo.partition(':')
HostPart(netloc) ==
    LET hi == HostInfo(netloc) IN Upto(hi, FirstIn(hi, 1, {":"}) - 1)
PortPart(netloc) ==
    LET hi == HostInfo(netloc) IN From(hi, FirstIn(hi, 1, {":"}))

DefaultPort(scheme) == IF scheme = TxtHttp THEN 80 ELSE 443

-----------------------------------------------------------------------------
(* pydantic field types                                                     *)

Ok(v) == [ok |-> TRUE, v |-> v]
Err   == [ok |-> FALSE, v |-> None]

\* str with min_length / max_length; a required field rejects None
StrField(raw, minLen, maxLen) ==
    IF IsNone(raw) THEN Err
    ELSE IF Len(Get(raw)) < minLen \/ Len(Get(raw)) > maxLen THEN Err
    ELSE Ok(Get(raw))

\* Optional[str] with max_length
OptStrField(raw, maxLen) ==
    IF IsNone(raw) THEN Ok(None)
    ELSE IF Len(Get(raw)) > maxLen THEN Err
    ELSE Ok(raw)

\* Optional number with ge / le bounds (lo, hi are optional bounds)
OptNumField(raw, lo, hi) ==
    IF IsNone(raw) THEN Ok(None)
    ELSE IF ~IsNone(lo) /\ Get(raw) < Get(lo) THEN Err
    ELSE IF ~IsNone(hi) /\ Get(raw) > Get(hi) THEN Err
    ELSE Ok(raw)

\* Optional[Decimal] with ge=0, decimal_places=2 (thousandths: third place zero)
OptDecimalField(raw) ==
    IF IsNone(raw) THEN Ok(None)
    ELSE IF Get(raw) < 0 THEN Err
    ELSE IF Get(raw) % 10 # 0 THEN Err
    ELSE Ok(raw)

\* HttpUrl: an http or https scheme (any letter case) followed by "://" and a
\* non-empty host.  The stored URL prints with scheme and host lowercased, the
\* scheme's default port dropped and an empty path as "/".
HttpUrlScheme(s) ==
    IF StartsWith(Lower(s), TxtHttps \o TxtSep) THEN Some(TxtHttps)
    ELSE IF StartsWith(Lower(s), TxtHttp \o TxtSep) THEN Some(TxtHttp)
    ELSE None
HttpUrlText(s) ==
    LET scheme == Get(HttpUrlScheme(s))
        u      == SplitUrl(scheme, s)
        hi     == HostInfo(u.netloc)
        user   == Upto(u.netloc, Len(u.netloc) - Len(hi))
        port   == PortPart(u.netloc)
        keep   == port # <<>> /\ ToInt(port) # DefaultPort(scheme)
    IN  scheme \o TxtSep \o user \o Lower(HostPart(u.netloc))
          \o (IF keep THEN <<":">> \o port ELSE <<>>)
          \o (IF u.path = <<>> THEN <<"/">> ELSE u.path)
          \o (IF u.query # <<>> THEN <<"?">> \o u.query ELSE <<>>)
          \o (IF u.fragment # <<>> THEN <<"#">> \o u.fragment ELSE <<>>)
HttpUrlOk(s) ==
    /\ ~IsNone(HttpUrlScheme(s))
    /\ LET n == SplitUrl(Get(HttpUrlScheme(s)), s).netloc
       IN  /\ HostPart(n) # <<>>
           /\ \A i \in 1..Len(PortPart(n)) : IsDigit(PortPart(n)[i])
           /\ Len(PortPart(n)) <= 5
HttpUrlField(raw) ==
    IF IsNone(raw) THEN Err
    ELSE IF ~HttpUrlOk(Get(raw)) THEN Err
    ELSE Ok(HttpUrlText(Get(raw)))
OptHttpUrlField(raw) ==
    IF IsNone(raw) THEN Ok(None)
    ELSE IF ~HttpUrlOk(Get(raw)) THEN Err
    ELSE Ok(Some(HttpUrlText(Get(raw))))

-----------------------------------------------------------------------------
(* Product                                                                  *)

Cat_FURNITURE == <<"f","u","r","n","i","t","u","r","e">>
Cat_HOME_DECOR == <<"h","o","m","e","_","d","e","c","o","r">>
Cat_BEDDING == <<"b","e","d","d","i","n","g">>
Cat_LIGHTING == <<"l","i","g","h","t","i","n","g">>
Cat_RUGS == <<"r","u","g","s">>
Cat_KITCHEN == <<"k","i","t","c","h","e","n">>
Cat_OUTDOOR == <<"o","u","t","d","o","o","r">>
Cat_STORAGE == <<"s","t","o","r","a","g","e">>
Cat_OFFICE == <<"o","f","f","i","c","e">>
Cat_KIDS == <<"k","i","d","s">>
Cat_OTHER == <<"o","t","h","e","r">>
ProductCategory ==
    {Cat_FURNITURE, Cat_HOME_DECOR, Cat_BEDDING, Cat_LIGHTING, Cat_RUGS, Cat_KITCHEN,
     Cat_OUTDOOR, Cat_STORAGE, Cat_OFFICE, Cat_KIDS, Cat_OTHER}

\* Optional[ProductCategory]: the value of a member, spelled exactly
CategoryField(raw) ==
    IF IsNone(raw) THEN Ok(None)
    ELSE IF Get(raw) \notin ProductCategory THEN Err
    ELSE Ok(raw)


\* validate_price_range with the ceiling itself rejected
validate_price_range_exclusive(v) ==
    IF ~IsNone(v) /\ Get(v) < 0 THEN Err
    ELSE IF ~IsNone(v) /\ Get(v) >= Mills(100000) THEN Err
    ELSE Ok(v)

\* Product.validate_price_range, after the Decimal field's own validation
validate_price_range(v) ==
    IF ~IsNone(v) /\ Get(v) < 0 THEN Err
    ELSE IF ~IsNone(v) /\ Get(v) > Mills(100000) THEN Err
    ELSE Ok(v)

\* validate_product_name with the length measured before the whitespace is collapsed
validate_product_name_raw_length(v) ==
    IF v # <<>>
    THEN IF Len(v) < 2 THEN Err ELSE Ok(CollapseWhitespace(v))
    ELSE Ok(v)

\* Product.validate_product_name, after the str field's own validation
validate_product_name(v) ==
    IF v # <<>>
    THEN LET w == CollapseWhitespace(v)
         IN  IF Len(Strip(w)) < 2 THEN Err ELSE Ok(w)
    ELSE Ok(v)

\* Product.validate_category, after the enum field's own validation
validate_category(v) ==
    IF ~IsNone(v) /\ Get(v) # <<>>
    THEN IF Lower(Get(v)) \in ProductCategory
         THEN Ok(Some(Lower(Get(v))))
         ELSE Ok(Some(Cat_OTHER))
    ELSE Ok(v)

ProductFields ==
    {"competitor", "product_name", "product_url", "brand", "category", "price",
     "original_price", "launch_date", "image_url", "description", "availability",
     "rating", "review_count", "sku", "collected_at", "extraction_confidence",
     "source_html_snippet"}

\* a field's own validation, then its @validator, which runs only if that passed
ProductNameField(raw) ==
    LET r == StrField(raw, 1, 500) IN IF r.ok THEN validate_product_name(r.v) ELSE r
ProductCategoryField(raw) ==
    LET r == CategoryField(raw) IN IF r.ok THEN validate_category(r.v) ELSE r
ProductPriceField(raw) ==
    LET r == OptDecimalField(raw) IN IF r.ok THEN validate_price_range(r.v) ELSE r

\* The validation of one Product field from its raw value; now is the clock
\* that collected_at's default_factory reads.
ProductField(f, raw, now) ==
    CASE f = "competitor"            -> StrField(raw, 1, 100)
      [] f = "product_name"          -> ProductNameField(raw)
      [] f = "product_url"           -> HttpUrlField(raw)
      [] f = "brand"                 -> OptStrField(raw, 100)
      [] f = "category"              -> ProductCategoryField(raw)
      [] f = "price"                 -> ProductPriceField(raw)
      [] f = "original_price"        -> ProductPriceField(raw)
      [] f = "launch_date"           -> Ok(raw)
      [] f = "image_url"             -> OptHttpUrlField(raw)
      [] f = "description"           -> OptStrField(raw, 2000)
      [] f = "availability"          -> OptStrField(raw, 50)
      [] f = "rating"                -> OptNumField(raw, Some(0), Some(Mills(5)))
      [] f = "review_count"          -> OptNumField(raw, Some(0), None)
      [] f = "sku"                   -> OptStrField(raw, 100)
      [] f = "collected_at"          -> IF IsNone(raw) THEN Ok(now) ELSE Ok(Get(raw))
      [] f = "extraction_confidence" -> OptNumField(raw, Some(0), Some(Mills(1)))
      [] f = "source_html_snippet"   -> OptStrField(raw, 5000)

\* Product(**input): every field is validated; the call raises ValidationError
\* naming every failing field, or returns the record of validated values.
ProductErrors(input, now) ==
    {f \in ProductFields : ~ProductField(f, input[f], now).ok}
ProductValues(input, now) ==
    [f \in ProductFields |-> ProductField(f, input[f], now).v]

\* Product.is_valid_for_export: the truth value of the and-chain
product_is_valid_for_export(p) ==
    /\ p.competitor # <<>>
    /\ p.product_name # <<>>
    /\ p.product_url # <<>>
    /\ Len(Strip(p.product_name)) >= 2

\* get_unique_key with the product name appended, as Promotion's key has its title
product_get_unique_key_with_name(p) ==
    p.competitor \o <<":">> \o p.product_url \o <<":">> \o Lower(p.product_name)

\* Product.get_unique_key
product_get_unique_key(p) == p.competitor \o <<":">> \o p.product_url


-----------------------------------------------------------------------------
(* The Product calls that are explored                                      *)

MaxDay == 2
Days == 1..MaxDay

\* how many attribute assignments are explored on one record
MaxAssigns == 1

TxtShop       == <<"S","h","o","p">>
TxtModernSofa == <<"M","o","d","e","r","n"," ","S","o","f","a">>
TxtUrlP       == <<"h","t","t","p","s",":","/","/","a",".","b","/","p">>
TxtUrlQ       == <<"h","t","t","p","s",":","/","/","a",".","b","/","q">>
TxtUrlUpper   == <<"H","T","T","P","S",":","/","/","A",".","b",":","4","4","3","/","p">>
TxtUrlBare    == <<"h","t","t","p",":","/","/","A",".","b">>
TxtUrlNoScheme == <<"a",".","b","/","p">>
TxtUrlFtp     == <<"f","t","p",":","/","/","a",".","b","/","p">>
TxtSofas      == <<"s","o","f","a","s">>
TxtFURNITURE  == <<"F","U","R","N","I","T","U","R","E">>

BaseProductInput ==
    [f \in ProductFields |->
        CASE f = "competitor"   -> Some(TxtShop)
          [] f = "product_name" -> Some(TxtModernSofa)
          [] f = "product_url"  -> Some(TxtUrlP)
          [] OTHER              -> None]

\* raw values tried for each field: absent, inside, on and beyond each limit
ProductCandidates(f) ==
    CASE f = "competitor" ->
            {None, Some(<<>>), Some(<<"S">>), Some(TxtShop),
             Some(Repeat("c", 100)), Some(Repeat("c", 101))}
      [] f = "product_name" ->
            {None, Some(<<>>), Some(<<"A">>), Some(<<"A", " ", " ", " ">>),
             Some(<<" ", " ">>), Some(<<"A", "B">>), Some(TxtModernSofa),
             Some(<<" ", "A", " ", "\t", "B", " ">>),
             Some(Repeat("n", 500)), Some(Repeat("n", 501)),
             Some(<<"a", "b">> \o Repeat(" ", 499)),
             Some(<<"a">> \o Repeat(" ", 498) \o <<"b">>)}
      [] f = "product_url" ->
            {None, Some(<<>>), Some(TxtUrlP), Some(TxtUrlQ), Some(TxtUrlUpper),
             Some(TxtUrlBare), Some(TxtUrlNoScheme), Some(TxtUrlFtp)}
      [] f = "brand" ->
            {None, Some(<<"B">>), Some(Repeat("b", 100)), Some(Repeat("b", 101))}
      [] f = "category" ->
            {None, Some(Cat_FURNITURE), Some(Cat_OTHER), Some(TxtSofas),
             Some(TxtFURNITURE), Some(<<>>)}
      [] f = "price" ->
            {None, Some(-10), Some(0), Some(5), Some(10), Some(899990),
             Some(Mills(100000)), Some(Mills(100000) + 10), Some(Mills(999999) + 990)}
      [] f = "original_price" ->
            {None, Some(-10), Some(0), Some(Mills(100000)), Some(Mills(100000) + 10)}
      [] f = "launch_date" -> {None, Some(1)}
      [] f = "image_url" -> {None, Some(TxtUrlQ), Some(TxtUrlNoScheme)}
      [] f = "description" ->
            {None, Some(Repeat("d", 2000)), Some(Repeat("d", 2001))}
      [] f = "availability" ->
            {None, Some(Repeat("v", 50)), Some(Repeat("v", 51))}
      [] f = "rating" ->
            {None, Some(-1), Some(0), Some(Mills(5)), Some(Mills(5) + 1)}
      [] f = "review_count" -> {None, Some(-1), Some(0), Some(7)}
      [] f = "sku" -> {None, Some(Repeat("k", 100)), Some(Repeat("k", 101))}
      [] f = "collected_at" -> {None, Some(1)}
      [] f = "extraction_confidence" ->
            {None, Some(-1), Some(0), Some(Mills(1)), Some(Mills(1) + 1)}
      [] f = "source_html_snippet" ->
            {None, Some(Repeat("h", 5000)), Some(Repeat("h", 5001))}

\* every optional field present and on its limit
FullProductInput ==
    [f \in ProductFields |->
        CASE f = "competitor"            -> Some(Repeat("c", 100))
          [] f = "product_name"          -> Some(Repeat("n", 500))
          [] f = "product_url"           -> Some(TxtUrlP)
          [] f = "brand"                 -> Some(Repeat("b", 100))
          [] f = "category"              -> Some(Cat_FURNITURE)
          [] f = "price"                 -> Some(Mills(100000))
          [] f = "original_price"        -> Some(0)
          [] f = "launch_date"           -> Some(1)
          [] f = "image_url"             -> Some(TxtUrlQ)
          [] f = "description"           -> Some(Repeat("d", 2000))
          [] f = "availability"          -> Some(Repeat("v", 50))
          [] f = "rating"                -> Some(Mills(5))
          [] f = "review_count"          -> Some(0)
          [] f = "sku"                   -> Some(Repeat("k", 100))
          [] f = "collected_at"          -> Some(1)
          [] f = "extraction_confidence" -> Some(Mills(1))
          [] f = "source_html_snippet"   -> Some(Repeat("h", 5000))]

\* The explored keyword arguments: the base call with one field varied, with
\* product_name and one of competitor / product_url / category / price varied
\* together, and the call with every field on its limit.
ProductInputs ==
    {[BaseProductInput EXCEPT ![f] = v] :
        <<f, v>> \in UNION {{<<g, w>> : w \in ProductCandidates(g)} : g \in ProductFields}}
    \cup
    {[BaseProductInput EXCEPT !["product_name"] = n, ![g] = w] :
        <<n, g, w>> \in UNION {ProductCandidates("product_name") \X {h} \X ProductCandidates(h) :
                        h \in {"competitor", "product_url", "category", "price"}}}
    \cup {FullProductInput}

\* the calls explored where two records are compared: one field varied
ProductPairInputs ==
    {[BaseProductInput EXCEPT ![f] = v] :
        <<f, v>> \in UNION {{<<g, w>> : w \in ProductCandidates(g)} : g \in ProductFields}}

\* the assignments explored on a constructed record
ProductAssignments ==
    {<<"competitor", Some(<<>>)>>, <<"competitor", Some(<<"S">>)>>,
     <<"product_name", Some(<<"A">>)>>, <<"product_name", Some(<<"A", " ", " ", " ">>)>>,
     <<"product_name", Some(<<" ", "A", " ", "\t", "B", " ">>)>>,
     <<"product_name", Some(Repeat("n", 501))>>,
     <<"category", Some(TxtSofas)>>, <<"category", Some(Cat_KIDS)>>, <<"category", None>>,
     <<"price", Some(-10)>>, <<"price", Some(Mills(100000))>>,
     <<"price", Some(Mills(100000) + 10)>>, <<"price", None>>,
     <<"original_price", Some(Mills(999999))>>, <<"original_price", Some(0)>>,
     <<"product_url", Some(TxtUrlQ)>>, <<"product_url", Some(TxtUrlNoScheme)>>}

NoInput == [f \in ProductFields |-> None]

\* p = Product(**input), the first call of a run
ConstructProduct(input) ==
    /\ productInput' = input
    /\ productError' = ProductErrors(input, today)
    /\ product' = IF ProductErrors(input, today) = {}
                  THEN Some(ProductValues(input, today))
                  ELSE None
    /\ productAssigns' = 0

\* p.<f> = raw under validate_assignment: the field alone is validated; a
\* failure raises and leaves the record as it was.
SetProductAttr(f, raw) ==
    /\ ~IsNone(product)
    /\ productAssigns < MaxAssigns
    /\ productAssigns' = productAssigns + 1
    /\ LET r == ProductField(f, raw, today)
       IN  /\ productError' = IF r.ok THEN {} ELSE {f}
           /\ product' = IF r.ok THEN Some([Get(product) EXCEPT ![f] = r.v]) ELSE product
    /\ UNCHANGED productInput

ProductCall ==
    /\ productInput = NoInput
    /\ \E input \in ProductInputs : ConstructProduct(input)
    /\ UNCHANGED <<prevProduct, promoVars, listVars, urlVars, today, lastCall, pipeVars>>

ProductAssign ==
    /\ \E a \in ProductAssignments : SetProductAttr(a[1], a[2])
    /\ UNCHANGED <<prevProduct, promoVars, listVars, urlVars, today, lastCall, pipeVars>>

\* a second Product built while the first is kept
ProductPairCall ==
    /\ ~IsNone(product)
    /\ IsNone(prevProduct)
    /\ \E input \in ProductPairInputs : ConstructProduct(input)
    /\ prevProduct' = product
    /\ UNCHANGED <<promoVars, listVars, urlVars, today, lastCall, pipeVars>>

ProductFirstCall ==
    /\ productInput = NoInput
    /\ \E input \in ProductPairInputs : ConstructProduct(input)
    /\ UNCHANGED <<prevProduct, promoVars, listVars, urlVars, today, lastCall, pipeVars>>

\* no pipeline run
PipeIdle ==
    /\ scenario = None
    /\ pc = <<>>
    /\ cur = 0
    /\ urlQueue = <<>>
    /\ inFlight = 0
    /\ scraped = <<>>
    /\ pages = <<>>
    /\ competitor_products = <<>>
    /\ competitor_promotions = <<>>
    /\ all_products = <<>>
    /\ all_promotions = <<>>
    /\ product_csv = None
    /\ promotion_csv = None
    /\ events = <<>>
    /\ runResult = None

ProductInit ==
    /\ productInput = NoInput
    /\ product = None
    /\ productError = {}
    /\ productAssigns = 0
    /\ prevProduct = None

NoCallsInit ==
    /\ promoInput = [f \in {} |-> None]
    /\ promotion = None
    /\ promoError = {}
    /\ promoAssigns = 0
    /\ productList = None
    /\ promotionList = None
    /\ successRate = None
    /\ lastCall = None
    /\ urlA = None
    /\ urlB = None
    /\ normA = None
    /\ normB = None

IdleInit == NoCallsInit /\ PipeIdle

ProductSpecInit == ProductInit /\ IdleInit /\ today \in Days
ProductNext == ProductCall \/ ProductAssign
ProductSpec == ProductSpecInit /\ [][ProductNext]_vars

ProductPairNext == ProductFirstCall \/ ProductPairCall
ProductPairSpec == ProductSpecInit /\ [][ProductPairNext]_vars


-----------------------------------------------------------------------------
(* Promotion                                                                *)

Type_PERCENTAGE_OFF == <<"p","e","r","c","e","n","t","a","g","e","_","o","f","f">>
Type_DOLLAR_OFF == <<"d","o","l","l","a","r","_","o","f","f">>
Type_BOGO == <<"b","u","y","_","o","n","e","_","g","e","t","_","o","n","e">>
Type_FREE_SHIPPING == <<"f","r","e","e","_","s","h","i","p","p","i","n","g">>
Type_FLASH_SALE == <<"f","l","a","s","h","_","s","a","l","e">>
Type_CLEARANCE == <<"c","l","e","a","r","a","n","c","e">>
Type_BUNDLE_DEAL == <<"b","u","n","d","l","e","_","d","e","a","l">>
Type_NEW_CUSTOMER == <<"n","e","w","_","c","u","s","t","o","m","e","r">>
Type_LOYALTY_PROGRAM == <<"l","o","y","a","l","t","y","_","p","r","o","g","r","a","m">>
Type_SEASONAL_SALE == <<"s","e","a","s","o","n","a","l","_","s","a","l","e">>
Type_OTHER == <<"o","t","h","e","r">>
PromotionType ==
    {Type_PERCENTAGE_OFF, Type_DOLLAR_OFF, Type_BOGO, Type_FREE_SHIPPING, Type_FLASH_SALE, Type_CLEARANCE,
     Type_BUNDLE_DEAL, Type_NEW_CUSTOMER, Type_LOYALTY_PROGRAM, Type_SEASONAL_SALE, Type_OTHER}

Status_ACTIVE == <<"a","c","t","i","v","e">>
Status_UPCOMING == <<"u","p","c","o","m","i","n","g">>
Status_EXPIRED == <<"e","x","p","i","r","e","d">>
Status_UNKNOWN == <<"u","n","k","n","o","w","n">>
PromotionStatus == {Status_ACTIVE, Status_UPCOMING, Status_EXPIRED, Status_UNKNOWN}

\* a required enum field: the value of a member, spelled exactly
EnumField(raw, members) ==
    IF IsNone(raw) THEN Err
    ELSE IF Get(raw) \notin members THEN Err
    ELSE Ok(Get(raw))

PromotionFields ==
    {"competitor", "promo_title", "promo_url", "promo_type", "promo_code",
     "discount_value", "minimum_purchase", "start_date", "end_date", "status",
     "applicable_products", "exclusions", "image_url", "description",
     "terms_and_conditions", "priority", "collected_at", "extraction_confidence",
     "source_html_snippet"}

\* the fields in the order the class declares them, which is the order of validation
PromotionFieldOrder ==
    <<"competitor", "promo_title", "promo_url", "promo_type", "promo_code",
      "discount_value", "minimum_purchase", "start_date", "end_date", "status",
      "applicable_products", "exclusions", "image_url", "description",
      "terms_and_conditions", "priority", "collected_at", "extraction_confidence",
      "source_html_snippet">>

\* validate_promo_title with the length checked but the text returned as given
validate_promo_title_uncollapsed(v) ==
    IF v # <<>>
    THEN IF Len(Strip(CollapseWhitespace(v))) < 2 THEN Err ELSE Ok(v)
    ELSE Ok(v)

\* Promotion.validate_promo_title, after the str field's own validation
validate_promo_title(v) ==
    IF v # <<>>
    THEN LET w == CollapseWhitespace(v)
         IN  IF Len(Strip(w)) < 2 THEN Err ELSE Ok(w)
    ELSE Ok(v)

\* validate_discount_value with the percentage compared against the dollar ceiling
validate_discount_value_one_ceiling(v, values) ==
    IF IsNone(v) THEN Ok(v)
    ELSE IF Get(v) > Mills(10000) THEN Err
    ELSE Ok(v)

\* Promotion.validate_discount_value; values maps the names of the fields
\* validated so far to their values (values.get('promo_type') is None if absent)
validate_discount_value(v, values) ==
    IF IsNone(v) THEN Ok(v)
    ELSE LET promo_type == IF "promo_type" \in DOMAIN values
                           THEN Some(values["promo_type"]) ELSE None
         IN  IF promo_type = Some(Type_PERCENTAGE_OFF) /\ Get(v) > Mills(100) THEN Err
             ELSE IF promo_type = Some(Type_DOLLAR_OFF) /\ Get(v) > Mills(10000) THEN Err
             ELSE Ok(v)

\* validate_date_range with an end date on the start date rejected too
validate_date_range_strict(v, values) ==
    IF ~IsNone(v) /\ "start_date" \in DOMAIN values
    THEN LET start_date == values["start_date"]
         IN  IF ~IsNone(start_date) /\ Get(v) <= Get(start_date) THEN Err ELSE Ok(v)
    ELSE Ok(v)

\* Promotion.validate_date_range, the validator of end_date
validate_date_range(v, values) ==
    IF ~IsNone(v) /\ "start_date" \in DOMAIN values
    THEN LET start_date == values["start_date"]
         IN  IF ~IsNone(start_date) /\ Get(v) < Get(start_date) THEN Err ELSE Ok(v)
    ELSE Ok(v)

Prefix_CODE   == <<"C","O","D","E",":">>
Prefix_PROMO  == <<"P","R","O","M","O",":">>
Prefix_USE    == <<"U","S","E",":">>
Prefix_COUPON == <<"C","O","U","P","O","N",":">>
prefixes_to_remove == <<Prefix_CODE, Prefix_PROMO, Prefix_USE, Prefix_COUPON>>

\* the loop of validate_promo_code over prefixes_to_remove[i..]
RECURSIVE RemovePrefixes(_, _)
RemovePrefixes(v, i) ==
    IF i > Len(prefixes_to_remove) THEN v
    ELSE IF StartsWith(v, prefixes_to_remove[i])
         THEN RemovePrefixes(Strip(From(v, Len(prefixes_to_remove[i]))), i + 1)
         ELSE RemovePrefixes(v, i + 1)

\* validate_promo_code with the code uppercased but not trimmed first
validate_promo_code_untrimmed(v) ==
    IF ~IsNone(v) /\ Get(v) # <<>>
    THEN LET w == RemovePrefixes(Upper(Get(v)), 1)
         IN  IF w # <<>> THEN Ok(Some(w)) ELSE Ok(None)
    ELSE Ok(None)

\* Promotion.validate_promo_code, after the str field's own validation
validate_promo_code(v) ==
    IF ~IsNone(v) /\ Get(v) # <<>>
    THEN LET w == RemovePrefixes(Upper(Strip(Get(v))), 1)
         IN  IF w # <<>> THEN Ok(Some(w)) ELSE Ok(None)
    ELSE Ok(None)

PromoTitleField(raw) ==
    LET r == StrField(raw, 1, 500) IN IF r.ok THEN validate_promo_title(r.v) ELSE r
PromoCodeField(raw) ==
    LET r == OptStrField(raw, 50) IN IF r.ok THEN validate_promo_code(r.v) ELSE r
DiscountValueField(raw, values) ==
    LET r == OptNumField(raw, Some(0), None)
    IN  IF r.ok THEN validate_discount_value(r.v, values) ELSE r
EndDateField(raw, values) ==
    LET r == Ok(raw) IN IF r.ok THEN validate_date_range(r.v, values) ELSE r

\* The validation of one Promotion field from its raw value, given the values
\* of the fields the validators may read.
PromotionField(f, raw, values, now) ==
    CASE f = "competitor"            -> StrField(raw, 1, 100)
      [] f = "promo_title"           -> PromoTitleField(raw)
      [] f = "promo_url"             -> HttpUrlField(raw)
      [] f = "promo_type"            -> EnumField(raw, PromotionType)
      [] f = "promo_code"            -> PromoCodeField(raw)
      [] f = "discount_value"        -> DiscountValueField(raw, values)
      [] f = "minimum_purchase"      -> OptNumField(raw, Some(0), None)
      [] f = "start_date"            -> Ok(raw)
      [] f = "end_date"              -> EndDateField(raw, values)
      [] f = "status"                -> IF IsNone(raw) THEN Ok(Status_UNKNOWN)
                                        ELSE EnumField(raw, PromotionStatus)
      [] f = "applicable_products"   -> OptStrField(raw, 1000)
      [] f = "exclusions"            -> OptStrField(raw, 1000)
      [] f = "image_url"             -> OptHttpUrlField(raw)
      [] f = "description"           -> OptStrField(raw, 2000)
      [] f = "terms_and_conditions"  -> OptStrField(raw, 3000)
      [] f = "priority"              -> OptNumField(raw, Some(1), Some(5))
      [] f = "collected_at"          -> IF IsNone(raw) THEN Ok(now) ELSE Ok(Get(raw))
      [] f = "extraction_confidence" -> OptNumField(raw, Some(0), Some(Mills(1)))
      [] f = "source_html_snippet"   -> OptStrField(raw, 5000)

\* Promotion(**input): the fields are validated in declaration order, each
\* validator seeing the fields that passed before it.  The result maps "ok" to
\* the values that passed and "bad" to the set of fields that failed.
RECURSIVE ValidatePromotion(_, _, _, _, _)
ValidatePromotion(input, now, i, values, bad) ==
    IF i > Len(PromotionFieldOrder) THEN [ok |-> values, bad |-> bad]
    ELSE LET f == PromotionFieldOrder[i]
             r == PromotionField(f, input[f], values, now)
         IN  IF r.ok
             THEN ValidatePromotion(input, now, i + 1,
                                    [g \in DOMAIN values \cup {f} |->
                                        IF g = f THEN r.v ELSE values[g]], bad)
             ELSE ValidatePromotion(input, now, i + 1, values, bad \cup {f})

EmptyValues == [g \in {} |-> None]

PromotionResult(input, now) == ValidatePromotion(input, now, 1, EmptyValues, {})

\* is_currently_active with the end date itself counted as over
is_currently_active_end_excluded(p, day) ==
    IF IsNone(p.start_date) /\ IsNone(p.end_date) THEN p.status = Status_ACTIVE
    ELSE IF ~IsNone(p.start_date) /\ day < Get(p.start_date) THEN FALSE
    ELSE IF ~IsNone(p.end_date) /\ day >= Get(p.end_date) THEN FALSE
    ELSE TRUE

\* Promotion.is_currently_active
is_currently_active(p, day) ==
    IF IsNone(p.start_date) /\ IsNone(p.end_date) THEN p.status = Status_ACTIVE
    ELSE IF ~IsNone(p.start_date) /\ day < Get(p.start_date) THEN FALSE
    ELSE IF ~IsNone(p.end_date) /\ day > Get(p.end_date) THEN FALSE
    ELSE TRUE


-----------------------------------------------------------------------------
(* The Promotion calls that are explored                                    *)

TxtTestSale == <<"T","e","s","t"," ","S","a","l","e">>
TxtCodeSave20 == <<"C","O","D","E",":"," ","S","A","V","E","2","0">>
TxtLowerSave10 == <<"s","a","v","e","1","0">>
TxtPaddedCode == <<" "," ","S","a","v","e","5"," ">>
TxtCodeOnly == <<"c","o","d","e",":">>
TxtCodeUse == <<"C","O","D","E",":"," ","U","S","E",":"," ","X">>
TxtPromoCode == <<"P","R","O","M","O",":"," ","C","O","D","E",":"," ","X">>
TxtUseCoupon == <<"u","s","e",":","c","o","u","p","o","n",":","z">>
TxtCouponUse == <<"C","O","U","P","O","N",":"," ","U","S","E",":"," ","Y">>
TxtBlank == <<" "," "," ">>
TxtInnerCode == <<"X"," ","C","O","D","E",":"," ","Y">>

BasePromotionInput ==
    [f \in PromotionFields |->
        CASE f = "competitor"  -> Some(TxtShop)
          [] f = "promo_title" -> Some(TxtTestSale)
          [] f = "promo_url"   -> Some(TxtUrlP)
          [] f = "promo_type"  -> Some(Type_PERCENTAGE_OFF)
          [] OTHER             -> None]

PromoCodeCandidates ==
    {None, Some(<<>>), Some(TxtCodeSave20), Some(TxtLowerSave10), Some(TxtPaddedCode), Some(TxtCodeOnly),
     Some(TxtCodeUse), Some(TxtPromoCode), Some(TxtUseCoupon), Some(TxtCouponUse), Some(TxtBlank), Some(TxtInnerCode),
     Some(Prefix_CODE \o Repeat(" ", 44) \o <<"z">>),
     Some(Prefix_CODE \o Repeat(" ", 45) \o <<"z">>)}

PromotionCandidates(f) ==
    CASE f = "competitor" ->
            {None, Some(<<>>), Some(TxtShop), Some(Repeat("c", 100)), Some(Repeat("c", 101))}
      [] f = "promo_title" ->
            {None, Some(<<>>), Some(<<"A">>), Some(<<"A", " ", " ">>), Some(<<"A", "B">>),
             Some(TxtTestSale), Some(<<" ", "A", " ", "\t", "B", " ">>),
             Some(Repeat("n", 500)), Some(Repeat("n", 501))}
      [] f = "promo_url" ->
            {None, Some(TxtUrlP), Some(TxtUrlQ), Some(TxtUrlNoScheme)}
      [] f = "promo_type" ->
            {None, Some(Type_PERCENTAGE_OFF), Some(Type_DOLLAR_OFF), Some(Type_OTHER),
             Some(TxtSofas)}
      [] f = "promo_code" -> PromoCodeCandidates
      [] f = "discount_value" ->
            {None, Some(-1), Some(0), Some(Mills(20)), Some(Mills(100)), Some(Mills(100) + 1),
             Some(Mills(150)), Some(Mills(10000)), Some(Mills(10000) + 1)}
      [] f = "minimum_purchase" -> {None, Some(-1), Some(0), Some(Mills(50))}
      [] f = "start_date" -> {None} \cup {Some(d) : d \in 0..(MaxDay + 1)}
      [] f = "end_date" -> {None} \cup {Some(d) : d \in 0..(MaxDay + 1)}
      [] f = "status" ->
            {None, Some(Status_ACTIVE), Some(Status_UPCOMING), Some(Status_EXPIRED),
             Some(Status_UNKNOWN), Some(TxtSofas)}
      [] f = "applicable_products" ->
            {None, Some(Repeat("a", 1000)), Some(Repeat("a", 1001))}
      [] f = "exclusions" ->
            {None, Some(Repeat("e", 1000)), Some(Repeat("e", 1001))}
      [] f = "image_url" -> {None, Some(TxtUrlQ), Some(TxtUrlNoScheme)}
      [] f = "description" ->
            {None, Some(Repeat("d", 2000)), Some(Repeat("d", 2001))}
      [] f = "terms_and_conditions" ->
            {None, Some(Repeat("t", 3000)), Some(Repeat("t", 3001))}
      [] f = "priority" -> {None, Some(0), Some(1), Some(5), Some(6)}
      [] f = "collected_at" -> {None, Some(1)}
      [] f = "extraction_confidence" ->
            {None, Some(-1), Some(0), Some(Mills(1)), Some(Mills(1) + 1)}
      [] f = "source_html_snippet" ->
            {None, Some(Repeat("h", 5000)), Some(Repeat("h", 5001))}

\* The explored keyword arguments: the base call with one field varied; every
\* pairing of promo_type with discount_value and of start_date with end_date;
\* and, on top of a percentage above 100 and of an end before the start, one
\* more field varied.
PromotionCores ==
    {[BasePromotionInput EXCEPT !["discount_value"] = Some(Mills(150))],
     [BasePromotionInput EXCEPT !["start_date"] = Some(2), !["end_date"] = Some(1)],
     BasePromotionInput}
PromotionInputs ==
    {[c EXCEPT ![f] = v] :
        <<c, f, v>> \in UNION {PromotionCores \X {g} \X PromotionCandidates(g) :
                       g \in PromotionFields}}
    \cup
    {[BasePromotionInput EXCEPT !["promo_type"] = t, !["discount_value"] = d] :
        <<t, d>> \in PromotionCandidates("promo_type") \X PromotionCandidates("discount_value")}
    \cup
    {[BasePromotionInput EXCEPT !["start_date"] = x, !["end_date"] = y, !["status"] = z] :
        <<x, y, z>> \in PromotionCandidates("start_date") \X PromotionCandidates("end_date")
                        \X {None, Some(Status_ACTIVE)}}

\* the assignments explored on a constructed record
PromotionAssignments ==
    {<<"promo_type", Some(Type_PERCENTAGE_OFF)>>, <<"promo_type", Some(Type_DOLLAR_OFF)>>,
     <<"discount_value", None>>, <<"discount_value", Some(Mills(100))>>,
     <<"discount_value", Some(Mills(150))>>,
     <<"start_date", None>>, <<"start_date", Some(1)>>, <<"start_date", Some(MaxDay + 1)>>,
     <<"end_date", None>>, <<"end_date", Some(0)>>, <<"end_date", Some(2)>>,
     <<"promo_code", Some(TxtCodeSave20)>>, <<"promo_code", Some(TxtPromoCode)>>,
     <<"promo_title", Some(<<"A">>)>>, <<"promo_title", Some(<<" ", "A", " ", "\t", "B", " ">>)>>}

NoPromoInput == [f \in PromotionFields |-> None]

\* p = Promotion(**input), the first call of a run
ConstructPromotion(input) ==
    LET r == PromotionResult(input, today)
    IN  /\ promoInput' = input
        /\ promoError' = r.bad
        /\ promotion' = IF r.bad = {} THEN Some(r.ok) ELSE None
        /\ promoAssigns' = 0

\* p.<f> = raw under validate_assignment: the field alone is validated, its
\* validator seeing the record's other fields; a failure raises and leaves the
\* record as it was.
SetPromotionAttr(f, raw) ==
    /\ ~IsNone(promotion)
    /\ promoAssigns < MaxAssigns
    /\ promoAssigns' = promoAssigns + 1
    /\ LET others == [g \in PromotionFields \ {f} |-> Get(promotion)[g]]
           r == PromotionField(f, raw, others, today)
       IN  /\ promoError' = IF r.ok THEN {} ELSE {f}
           /\ promotion' = IF r.ok THEN Some([Get(promotion) EXCEPT ![f] = r.v])
                           ELSE promotion
    /\ UNCHANGED promoInput

PromotionCall ==
    /\ promoInput = NoPromoInput
    /\ \E input \in PromotionInputs : ConstructPromotion(input)
    /\ UNCHANGED <<productVars, listVars, urlVars, today, lastCall, pipeVars>>

PromotionAssign ==
    /\ \E a \in PromotionAssignments : SetPromotionAttr(a[1], a[2])
    /\ UNCHANGED <<productVars, listVars, urlVars, today, lastCall, pipeVars>>

PromotionSpecInit ==
    /\ ProductInit
    /\ promoInput = NoPromoInput
    /\ promotion = None
    /\ promoError = {}
    /\ promoAssigns = 0
    /\ productList = None
    /\ promotionList = None
    /\ successRate = None
    /\ lastCall = None
    /\ PipeIdle
    /\ urlA = None
    /\ urlB = None
    /\ normA = None
    /\ normB = None
    /\ today \in Days
PromotionNext == PromotionCall \/ PromotionAssign
PromotionSpec == PromotionSpecInit /\ [][PromotionNext]_vars

\* p.is_currently_active() on the constructed record
IsCurrentlyActiveCall ==
    /\ ~IsNone(promotion)
    /\ IsNone(lastCall)
    /\ lastCall' = Some([op |-> "is_currently_active", on |-> Get(promotion), day |-> today,
                         result |-> is_currently_active(Get(promotion), today)])
    /\ UNCHANGED <<productVars, promoVars, listVars, urlVars, today, pipeVars>>

PromotionActiveNext == PromotionCall \/ IsCurrentlyActiveCall
PromotionActiveSpec == PromotionSpecInit /\ [][PromotionActiveNext]_vars

\* a run that builds records of one kind, Product or Promotion, and assigns to them
RecordProductCall == promoInput = NoPromoInput /\ ProductCall
RecordPromotionCall == productInput = NoInput /\ PromotionCall
RecordNext == RecordProductCall \/ ProductAssign \/ RecordPromotionCall \/ PromotionAssign
RecordSpec == PromotionSpecInit /\ [][RecordNext]_vars


-----------------------------------------------------------------------------
(* ProductList and PromotionList                                            *)

\* the quotient n / d of two integers, d > 0, in lowest terms
RECURSIVE GCD(_, _)
GCD(a, b) == IF b = 0 THEN a ELSE GCD(b, a % b)
Abs(n) == IF n < 0 THEN 0 - n ELSE n
Quotient(n, d) ==
    LET g == GCD(Abs(n), d) IN [num |-> n \div g, den |-> d \div g]
Zero == [num |-> 0, den |-> 1]

\* ProductList(competitor=..., total_products=t, successful_extractions=s,
\* failed_extractions=f): plain int fields, no constraint and no validator
NewProductList(competitor, t, s, f) ==
    [products |-> <<>>, competitor |-> competitor, total_products |-> t,
     successful_extractions |-> s, failed_extractions |-> f]

\* ProductList.add_product
add_product(l, p) ==
    [l EXCEPT !.products = Append(l.products, p),
              !.total_products = Len(l.products) + 1]

\* get_success_rate with the stored total as the divisor
product_list_get_success_rate_of_total(l) ==
    IF l.total_products > 0
    THEN Quotient(l.successful_extractions, l.total_products)
    ELSE Zero

\* ProductList.get_success_rate
product_list_get_success_rate(l) ==
    LET total == l.successful_extractions + l.failed_extractions
    IN  IF total > 0 THEN Quotient(l.successful_extractions, total) ELSE Zero

\* PromotionList(competitor=..., total_promotions=t, successful_extractions=s,
\* failed_extractions=f)
NewPromotionList(competitor, t, s, f) ==
    [promotions |-> <<>>, competitor |-> competitor, total_promotions |-> t,
     active_promotions |-> 0, upcoming_promotions |-> 0, expired_promotions |-> 0,
     successful_extractions |-> s, failed_extractions |-> f]

\* sum(1 for p in ps if ...)
CountActive(ps, day) == Cardinality({i \in 1..Len(ps) : is_currently_active(ps[i], day)})
CountStatus(ps, status) == Cardinality({i \in 1..Len(ps) : ps[i].status = status})

\* PromotionList._update_status_counts
update_status_counts(l, day) ==
    [l EXCEPT !.active_promotions = CountActive(l.promotions, day),
              !.upcoming_promotions = CountStatus(l.promotions, Status_UPCOMING),
              !.expired_promotions = CountStatus(l.promotions, Status_EXPIRED)]

\* add_promotion with the total counted up rather than taken from the list
add_promotion_counting_up(l, p, day) ==
    update_status_counts(
        [l EXCEPT !.promotions = Append(l.promotions, p),
                  !.total_promotions = l.total_promotions + 1], day)

\* PromotionList.add_promotion
add_promotion(l, p, day) ==
    update_status_counts(
        [l EXCEPT !.promotions = Append(l.promotions, p),
                  !.total_promotions = Len(l.promotions) + 1], day)

\* PromotionList.get_success_rate
promotion_list_get_success_rate(l) ==
    LET total == l.successful_extractions + l.failed_extractions
    IN  IF total > 0 THEN Quotient(l.successful_extractions, total) ELSE Zero

-----------------------------------------------------------------------------
(* The list calls that are explored                                         *)

MaxCount == 8
Counts == (0 - 1)..MaxCount
MaxItems == 2

\* records that passed validation, to be added to a list
ListProducts ==
    {ProductValues(BaseProductInput, 1),
     ProductValues([BaseProductInput EXCEPT !["product_url"] = Some(TxtUrlQ)], 1)}
ListPromotions ==
    {PromotionResult(i, 1).ok :
        i \in {[BasePromotionInput EXCEPT !["status"] = Some(Status_ACTIVE)],
               [BasePromotionInput EXCEPT !["status"] = Some(Status_UPCOMING),
                                          !["start_date"] = Some(2)],
               [BasePromotionInput EXCEPT !["status"] = Some(Status_EXPIRED),
                                          !["end_date"] = Some(1)]}}

TxtProducts == <<"p","r","o","d","u","c","t","s">>
TxtPromotions == <<"p","r","o","m","o","t","i","o","n","s">>

ProductListCreate ==
    /\ IsNone(productList)
    /\ IsNone(promotionList)
    /\ \E t \in {0, MaxItems + 1}, s \in Counts, f \in Counts :
          productList' = Some(NewProductList(TxtShop, t, s, f))
    /\ UNCHANGED <<promotionList, successRate, productVars, promoVars, urlVars, today, lastCall, pipeVars>>

ProductListAdd ==
    /\ ~IsNone(productList)
    /\ Len(Get(productList).products) < MaxItems
    /\ \E p \in ListProducts : productList' = Some(add_product(Get(productList), p))
    /\ UNCHANGED <<promotionList, successRate, productVars, promoVars, urlVars, today, lastCall, pipeVars>>

ProductListSuccessRate ==
    /\ ~IsNone(productList)
    /\ successRate' = Some([of |-> TxtProducts,
                            v |-> product_list_get_success_rate(Get(productList))])
    /\ UNCHANGED <<productList, promotionList, productVars, promoVars, urlVars, today, lastCall, pipeVars>>

PromotionListCreate ==
    /\ IsNone(productList)
    /\ IsNone(promotionList)
    /\ \E t \in {0, MaxItems + 1}, s \in Counts, f \in Counts :
          promotionList' = Some(NewPromotionList(TxtShop, t, s, f))
    /\ UNCHANGED <<productList, successRate, productVars, promoVars, urlVars, today, lastCall, pipeVars>>

PromotionListAdd ==
    /\ ~IsNone(promotionList)
    /\ Len(Get(promotionList).promotions) < MaxItems
    /\ \E p \in ListPromotions :
          promotionList' = Some(add_promotion(Get(promotionList), p, today))
    /\ UNCHANGED <<productList, successRate, productVars, promoVars, urlVars, today, lastCall, pipeVars>>

PromotionListSuccessRate ==
    /\ ~IsNone(promotionList)
    /\ successRate' = Some([of |-> TxtPromotions,
                            v |-> promotion_list_get_success_rate(Get(promotionList))])
    /\ UNCHANGED <<productList, promotionList, productVars, promoVars, urlVars, today, lastCall, pipeVars>>

ListSpecInit == ProductInit /\ IdleInit /\ today \in Days
ListNext ==
    \/ ProductListCreate
    \/ ProductListAdd
    \/ ProductListSuccessRate
    \/ PromotionListCreate
    \/ PromotionListAdd
    \/ PromotionListSuccessRate
ListSpec == ListSpecInit /\ [][ListNext]_vars

-----------------------------------------------------------------------------
(* URLValidator.normalize_url                                               *)

Returned(t) == [raised |-> FALSE, v |-> t]
Raised      == [raised |-> TRUE, v |-> <<>>]

\* urllib.parse._splitparams: the path is cut at the first ";" of its last
\* segment
splitparams(url) ==
    LET i == IF \E k \in 1..Len(url) : url[k] = "/"
             THEN FirstIn(url, LastIn(url, {"/"}), {";"})
             ELSE FirstIn(url, 1, {";"})
    IN  IF i > Len(url) THEN [path |-> url, params |-> <<>>]
        ELSE [path |-> Upto(url, i - 1), params |-> From(url, i)]

\* urllib.parse.urlparse of a text that starts with "http://" or "https://" and
\* holds no bracket, control character or non-ASCII character
urlparse(url) ==
    LET scheme == IF StartsWith(url, TxtHttps \o TxtSep) THEN TxtHttps ELSE TxtHttp
        u      == SplitUrl(scheme, url)
        cut    == \E k \in 1..Len(u.path) : u.path[k] = ";"
    IN  [scheme |-> scheme, netloc |-> u.netloc,
         path |-> IF cut THEN splitparams(u.path).path ELSE u.path,
         params |-> IF cut THEN splitparams(u.path).params ELSE <<>>,
         query |-> u.query, fragment |-> u.fragment]

\* ParseResult.port: None without a port text, ValueError for one that is not
\* all digits or is above 65535
parsed_port(netloc) ==
    LET p == PortPart(netloc)
    IN  IF p = <<>> THEN Returned(None)
        ELSE IF \E i \in 1..Len(p) : ~IsDigit(p[i]) THEN Raised
        ELSE IF ToInt(p) > 65535 THEN Raised
        ELSE Returned(Some(ToInt(p)))

\* ParseResult.hostname: lowercased, None when empty
parsed_hostname(netloc) ==
    IF HostPart(netloc) = <<>> THEN None ELSE Some(Lower(HostPart(netloc)))

\* str.rstrip('/')
RStripSlash(s) == Upto(s, LastNotIn(s, {"/"}))

\* URLValidator.normalize_url
normalize_url(url) ==
    IF url = <<>> THEN Returned(url)
    ELSE
    LET full   == IF StartsWith(url, TxtHttp \o TxtSep) \/ StartsWith(url, TxtHttps \o TxtSep)
                  THEN url
                  ELSE TxtHttps \o TxtSep \o url
        parsed == urlparse(full)
        port   == parsed_port(parsed.netloc)
    IN  IF port.raised THEN Raised
        ELSE
        LET default == /\ ~IsNone(port.v)
                       /\ Get(port.v) # 0
                       /\ \/ (parsed.scheme = TxtHttp /\ Get(port.v) = 80)
                          \/ (parsed.scheme = TxtHttps /\ Get(port.v) = 443)
            hostname == parsed_hostname(parsed.netloc)
            netloc == IF default
                      THEN (IF IsNone(hostname) THEN TxtNone ELSE Get(hostname))
                      ELSE parsed.netloc
            path   == IF parsed.path # <<"/">> THEN RStripSlash(parsed.path) ELSE parsed.path
        IN  Returned(parsed.scheme \o TxtSep \o netloc \o path
                       \o (IF parsed.query # <<>> THEN <<"?">> \o parsed.query ELSE <<>>)
                       \o (IF parsed.fragment # <<>> THEN <<"#">> \o parsed.fragment ELSE <<>>))

-----------------------------------------------------------------------------
(* The normalize_url calls that are explored                                *)

UrlPrefixes ==
    {<<>>,
     <<"h","t","t","p",":","/","/">>,
     <<"h","t","t","p","s",":","/","/">>,
     <<"H","T","T","P",":","/","/">>}
UrlUsers ==
    {<<>>,
     <<"U","s","e","r","@">>}
UrlHosts ==
    {<<>>,
     <<"a",".","b">>,
     <<"A",".","b">>}
UrlPorts ==
    {<<>>,
     <<":">>,
     <<":","8","0">>,
     <<":","4","4","3">>,
     <<":","0","8","0">>,
     <<":","8","0","8","0">>,
     <<":","9","9","9","9","9">>,
     <<":","x">>}
UrlPaths ==
    {<<>>,
     <<"/">>,
     <<"/","/">>,
     <<"/","p">>,
     <<"/","p","/">>,
     <<"/","p","/","/">>,
     <<"/","p",";","x">>,
     <<"/","p",";","x","/">>,
     <<"/","p",";","x","/","y">>}
UrlTails ==
    {<<>>,
     <<"?">>,
     <<"?","q">>,
     <<"#","f">>,
     <<"?","q","#","f">>}

UrlParts ==
    [pre : UrlPrefixes, user : UrlUsers, host : UrlHosts, port : UrlPorts,
     path : UrlPaths, tail : UrlTails]
UrlText(u) == u.pre \o u.user \o u.host \o u.port \o u.path \o u.tail

\* the same URL with another port text, or with one slash added to or taken
\* from the end of its path
UrlVariants(u) ==
    {[u EXCEPT !.port = q] : q \in UrlPorts \ {u.port}}
    \cup {[u EXCEPT !.path = q] :
             q \in {r \in UrlPaths : r = u.path \o <<"/">> \/ u.path = r \o <<"/">>}}

\* normalize_url(a) for a URL put together from parts
NormalizeCall ==
    /\ IsNone(urlA)
    /\ \E u \in UrlParts :
          /\ urlA' = Some([text |-> UrlText(u), parts |-> Some(u)])
          /\ normA' = Some(normalize_url(UrlText(u)))
    /\ UNCHANGED <<urlB, normB, productVars, promoVars, listVars, today, lastCall, pipeVars>>

\* normalize_url(normalize_url(a))
NormalizeAgainCall ==
    /\ ~IsNone(normA)
    /\ IsNone(urlB)
    /\ ~Get(normA).raised
    /\ urlB' = Some([text |-> Get(normA).v, parts |-> None])
    /\ normB' = Some(normalize_url(Get(normA).v))
    /\ UNCHANGED <<urlA, normA, productVars, promoVars, listVars, today, lastCall, pipeVars>>

\* normalize_url(b) for a variant b of a
NormalizeVariantCall ==
    /\ ~IsNone(urlA)
    /\ IsNone(urlB)
    /\ \E u \in UrlVariants(Get(Get(urlA).parts)) :
          /\ urlB' = Some([text |-> UrlText(u), parts |-> Some(u)])
          /\ normB' = Some(normalize_url(UrlText(u)))
    /\ UNCHANGED <<urlA, normA, productVars, promoVars, listVars, today, lastCall, pipeVars>>

UrlSpecInit == ProductInit /\ IdleInit /\ today = 1
UrlNext == NormalizeCall \/ NormalizeAgainCall \/ NormalizeVariantCall
UrlSpec == UrlSpecInit /\ [][UrlNext]_vars

-----------------------------------------------------------------------------
(* DateValidator.parse_date                                                 *)

\* calendar.month_name and calendar.month_abbr (C locale)
month_name ==
    <<<<"J","a","n","u","a","r","y">>,
      <<"F","e","b","r","u","a","r","y">>,
      <<"M","a","r","c","h">>,
      <<"A","p","r","i","l">>,
      <<"M","a","y">>,
      <<"J","u","n","e">>,
      <<"J","u","l","y">>,
      <<"A","u","g","u","s","t">>,
      <<"S","e","p","t","e","m","b","e","r">>,
      <<"O","c","t","o","b","e","r">>,
      <<"N","o","v","e","m","b","e","r">>,
      <<"D","e","c","e","m","b","e","r">>>>
month_abbr == [k \in 1..12 |-> Upto(month_name[k], 3)]

\* the formats with day-month order before month-day order
date_formats_eu_first ==
    << <<"%Y", "-", "%m", "-", "%d">>,
       <<"%d", "/", "%m", "/", "%Y">>,
       <<"%m", "/", "%d", "/", "%Y">>,
       <<"%B", " ", "%d", ",", " ", "%Y">>,
       <<"%b", " ", "%d", ",", " ", "%Y">>,
       <<"%d", " ", "%B", " ", "%Y">>,
       <<"%d", " ", "%b", " ", "%Y">>,
       <<"%Y", "-", "%m", "-", "%d", " ", "%H", ":", "%M", ":", "%S">> >>

\* parse_date's formats, each a sequence of directives and literal characters
date_formats ==
    << <<"%Y", "-", "%m", "-", "%d">>,
       <<"%m", "/", "%d", "/", "%Y">>,
       <<"%d", "/", "%m", "/", "%Y">>,
       <<"%B", " ", "%d", ",", " ", "%Y">>,
       <<"%b", " ", "%d", ",", " ", "%Y">>,
       <<"%d", " ", "%B", " ", "%Y">>,
       <<"%d", " ", "%b", " ", "%Y">>,
       <<"%Y", "-", "%m", "-", "%d", " ", "%H", ":", "%M", ":", "%S">> >>

NumericDirectives == {"%Y", "%m", "%d", "%H", "%M", "%S"}

\* the digit strings a numeric directive's pattern accepts, by length
DirectiveAccepts(tok, digits) ==
    LET n == ToInt(digits)
        two == Len(digits) = 2
    IN  CASE tok = "%Y" -> Len(digits) = 4
          [] tok = "%m" -> IF two THEN n >= 1 /\ n <= 12 ELSE n >= 1
          [] tok = "%d" -> IF two THEN n >= 1 /\ n <= 31 ELSE n >= 1
          [] tok = "%H" -> IF two THEN n <= 23 ELSE TRUE
          [] tok = "%M" -> IF two THEN n <= 59 ELSE TRUE
          [] tok = "%S" -> IF two THEN n <= 61 ELSE TRUE

\* the lengths a numeric directive tries, in the order of its pattern's alternatives
DirectiveLengths(tok) == IF tok = "%Y" THEN <<4>> ELSE <<2, 1>>

AllDigits(t) == \A i \in 1..Len(t) : IsDigit(t[i])

\* the month whose name (any letter case) the text carries at pos, or 0
MonthAt(names, t, pos) ==
    LET hit(k) == StartsWith(Lower(From(t, pos - 1)), Lower(names[k]))
    IN  IF \E k \in 1..12 : hit(k) THEN CHOOSE k \in 1..12 : hit(k) ELSE 0

\* the regular-expression match _strptime makes of the whole text against a
\* format: the fields found, or None.  A blank of the format takes a run of
\* whitespace, a numeric directive its alternatives in order, backtracking.
RECURSIVE MatchFormat(_, _, _, _, _)
MatchFormat(fmt, i, t, pos, found) ==
    IF i > Len(fmt) THEN (IF pos = Len(t) + 1 THEN Some(found) ELSE None)
    ELSE
    LET tok == fmt[i]
        with(k, v) == [g \in DOMAIN found \cup {k} |-> IF g = k THEN v ELSE found[g]]
        digits(n) == SubSeq(t, pos, pos + n - 1)
        fits(n) == /\ pos + n - 1 <= Len(t)
                   /\ AllDigits(digits(n))
                   /\ DirectiveAccepts(tok, digits(n))
        try(n) == IF fits(n)
                  THEN MatchFormat(fmt, i + 1, t, pos + n, with(tok, ToInt(digits(n))))
                  ELSE None
        lens == DirectiveLengths(tok)
    IN  IF tok \in NumericDirectives
        THEN IF ~IsNone(try(lens[1])) THEN try(lens[1])
             ELSE IF Len(lens) > 1 /\ ~IsNone(try(lens[2])) THEN try(lens[2])
             ELSE IF tok = "%d" /\ pos + 1 <= Len(t) /\ t[pos] = " "
                     /\ IsDigit(t[pos + 1]) /\ t[pos + 1] # "0"
             THEN MatchFormat(fmt, i + 1, t, pos + 2, with(tok, DigitVal(t[pos + 1])))
             ELSE None
        ELSE IF tok \in {"%B", "%b"}
        THEN LET names == IF tok = "%B" THEN month_name ELSE month_abbr
                 k == MonthAt(names, t, pos)
             IN  IF k = 0 THEN None
                 ELSE MatchFormat(fmt, i + 1, t, pos + Len(names[k]), with("%m", k))
        ELSE IF tok = " "
        THEN LET e == FirstNotIn(t, pos, Spaces)
             IN  IF pos > Len(t) \/ e = pos THEN None
                 ELSE MatchFormat(fmt, i + 1, t, e, found)
        ELSE IF pos <= Len(t) /\ t[pos] = tok
        THEN MatchFormat(fmt, i + 1, t, pos + 1, found)
        ELSE None

IsLeap(y) == y % 4 = 0 /\ (y % 100 # 0 \/ y % 400 = 0)
DaysInMonth(y, m) ==
    IF m = 2 THEN (IF IsLeap(y) THEN 29 ELSE 28)
    ELSE IF m \in {4, 6, 9, 11} THEN 30 ELSE 31

\* datetime.strptime(t, fmt): the datetime, or None for ValueError (no match,
\* or fields that are no date)
strptime(t, fmt) ==
    LET m == MatchFormat(fmt, 1, t, 1, [g \in {} |-> 0])
    IN  IF IsNone(m) THEN None
        ELSE LET f == Get(m)
                 field(k) == IF k \in DOMAIN f THEN f[k] ELSE 0
             IN  IF \/ f["%Y"] < 1
                    \/ f["%d"] > DaysInMonth(f["%Y"], f["%m"])
                    \/ field("%S") > 59
                 THEN None
                 ELSE Some([year |-> f["%Y"], month |-> f["%m"], day |-> f["%d"],
                            hour |-> field("%H"), minute |-> field("%M"),
                            second |-> field("%S")])

\* for fmt in formats: try strptime(date_str.strip(), fmt)
RECURSIVE TryFormats(_, _, _)
TryFormats(t, formats, i) ==
    IF i > Len(formats) THEN None
    ELSE IF ~IsNone(strptime(t, formats[i])) THEN strptime(t, formats[i])
    ELSE TryFormats(t, formats, i + 1)

\* DateValidator.parse_date
parse_date(date_str) ==
    IF date_str = <<>> THEN None ELSE TryFormats(Strip(date_str), date_formats, 1)

-----------------------------------------------------------------------------
(* The parse_date calls that are explored                                   *)

Pad2(n) == <<Digits[(n \div 10) + 1], Digits[(n % 10) + 1]>>
Pad4(n) == Pad2(n \div 100) \o Pad2(n % 100)

\* the ways a day is written out
DateStyles == {"iso", "us", "eu", "long", "abbr", "day_long", "day_abbr", "stamp", "loose"}
Render(style, y, m, d) ==
    CASE style = "iso"      -> Pad4(y) \o <<"-">> \o Pad2(m) \o <<"-">> \o Pad2(d)
      [] style = "us"       -> Pad2(m) \o <<"/">> \o Pad2(d) \o <<"/">> \o Pad4(y)
      [] style = "eu"       -> Pad2(d) \o <<"/">> \o Pad2(m) \o <<"/">> \o Pad4(y)
      [] style = "long"     -> month_name[m] \o <<" ">> \o Pad2(d) \o <<",", " ">> \o Pad4(y)
      [] style = "abbr"     -> month_abbr[m] \o <<" ">> \o Pad2(d) \o <<",", " ">> \o Pad4(y)
      [] style = "day_long" -> Pad2(d) \o <<" ">> \o month_name[m] \o <<" ">> \o Pad4(y)
      [] style = "day_abbr" -> Pad2(d) \o <<" ">> \o month_abbr[m] \o <<" ">> \o Pad4(y)
      [] style = "stamp"    -> Pad4(y) \o <<"-">> \o Pad2(m) \o <<"-">> \o Pad2(d)
                                 \o <<" ", "1", "0", ":", "3", "0", ":", "4", "5">>
      [] style = "loose"    -> <<" ", " ">> \o Upper(month_name[m]) \o <<" ", " ">>
                                 \o (IF d < 10 THEN <<Digits[d + 1]>> ELSE Pad2(d))
                                 \o <<",", "\t">> \o Pad4(y) \o <<" ">>

MaxYears == 2
SampleYears == 2023..(2023 + MaxYears - 1)
SampleMonths == {1, 2, 3, 5, 9, 12}
SampleDays == {1, 4, 12, 15, 29, 30, 31}

\* texts no format matches
UnparseableTexts ==
    {<<" "," ">>,
     <<"t","o","m","o","r","r","o","w">>,
     <<"2","0","2","4","/","0","1","/","1","5">>,
     <<"2","0","2","4","-","1","3","-","0","1">>,
     <<"1","3","/","1","3","/","2","0","2","4">>,
     <<"2","0","2","4","-","0","1","-","1","5","T","1","0",":","3","0",":","4","5">>,
     <<"0","1","-","1","5","-","2","0","2","4">>,
     <<"J","a","n","u"," ","1","5",","," ","2","0","2","4">>,
     <<"J","a","n","u","a","r","y"," ","1","5"," ","2","0","2","4">>,
     <<"2","0","2","4","-","0","1","-","1","5"," ","1","0",":","3","0">>,
     <<"1","5",".","0","1",".","2","0","2","4">>,
     <<"2","4","-","0","1","-","1","5">>}

\* parse_date(text) for a day written out in one of the styles
ParseRenderedDate ==
    /\ IsNone(lastCall)
    /\ \E style \in DateStyles, y \in SampleYears, m \in SampleMonths, d \in SampleDays :
          lastCall' = Some([op |-> "parse_date", style |-> style,
                            year |-> y, month |-> m, day |-> d,
                            text |-> Render(style, y, m, d),
                            result |-> parse_date(Render(style, y, m, d))])
    /\ UNCHANGED <<productVars, promoVars, listVars, urlVars, today, pipeVars>>

\* parse_date(text) for an empty text or one that is no date
ParseOtherText ==
    /\ IsNone(lastCall)
    /\ \E t \in UnparseableTexts \cup {<<>>} :
          lastCall' = Some([op |-> "parse_date", style |-> "none",
                            year |-> 0, month |-> 0, day |-> 0,
                            text |-> t, result |-> parse_date(t)])
    /\ UNCHANGED <<productVars, promoVars, listVars, urlVars, today, pipeVars>>

DateSpecInit == ProductInit /\ IdleInit /\ today = 1
DateNext == ParseRenderedDate \/ ParseOtherText
DateSpec == DateSpecInit /\ [][DateNext]_vars

-----------------------------------------------------------------------------
(* Competitor and CompetitorConfig: the crawl time estimate                 *)

\* A Competitor is held by the fields the estimate reads: enabled, the number
\* of new_urls and of promo_urls, crawl.depth, crawl.limit, and crawl.delay in
\* thousandths of a second.  Times are exact fractions.

Min(a, b) == IF a <= b THEN a ELSE b

\* Competitor.get_total_url_count
get_total_url_count(c) == c.new_urls + c.promo_urls

\* the estimate with the crawl depth alone deciding the additional pages
get_estimated_pages_by_depth(c) ==
    LET base_pages == get_total_url_count(c)
        estimated_additional == base_pages * (c.depth - 1)
    IN  base_pages + estimated_additional

\* Competitor.get_estimated_pages
get_estimated_pages(c) ==
    LET base_pages == get_total_url_count(c)
        estimated_additional == base_pages * Min(c.depth - 1, c.limit \div 10)
    IN  base_pages + estimated_additional

\* the estimate without the processing time
get_estimated_time_minutes_delay_only(c) ==
    LET estimated_requests == get_estimated_pages(c)
        total_delay == estimated_requests * c.delay
    IN  Quotient(total_delay, 60 * Mills(1))

\* Competitor.get_estimated_time_minutes
get_estimated_time_minutes(c) ==
    LET estimated_requests == get_estimated_pages(c)
        total_delay == estimated_requests * c.delay
        processing_time == estimated_requests * (Mills(1) \div 2)
    IN  Quotient(total_delay + processing_time, 60 * Mills(1))

\* CompetitorConfig.get_enabled_competitors
get_enabled_competitors(cfg) == SelectSeq(cfg, LAMBDA c : c.enabled)

QAdd(a, b) == Quotient(a.num * b.den + b.num * a.den, a.den * b.den)
QGreaterInt(a, n) == a.num > n * a.den

RECURSIVE SumTimes(_)
SumTimes(cs) ==
    IF cs = <<>> THEN Zero
    ELSE QAdd(get_estimated_time_minutes(Head(cs)), SumTimes(Tail(cs)))

\* CompetitorConfig.get_total_estimated_time
get_total_estimated_time(cfg) == SumTimes(get_enabled_competitors(cfg))

\* the default of validate_time_constraint's max_minutes
DefaultMaxMinutes == 80

\* the constraint with a limit that equality breaks
validate_time_constraint_strict(cfg, max_minutes) ==
    LET estimated_time == get_total_estimated_time(cfg)
    IN  IF \/ QGreaterInt(estimated_time, max_minutes)
           \/ estimated_time.num = max_minutes * estimated_time.den
        THEN [ok |-> FALSE,
              message |-> [estimated_time |-> estimated_time, says |-> "exceeds limit",
                           limit |-> Some(max_minutes)]]
        ELSE [ok |-> TRUE,
              message |-> [estimated_time |-> estimated_time, says |-> "within limit",
                           limit |-> None]]

\* CompetitorConfig.validate_time_constraint: (is_valid, message), the message
\* held as the time it quotes, what it says of the limit, and the limit where
\* it quotes one
validate_time_constraint(cfg, max_minutes) ==
    LET estimated_time == get_total_estimated_time(cfg)
    IN  IF QGreaterInt(estimated_time, max_minutes)
        THEN [ok |-> FALSE,
              message |-> [estimated_time |-> estimated_time, says |-> "exceeds limit",
                           limit |-> Some(max_minutes)]]
        ELSE [ok |-> TRUE,
              message |-> [estimated_time |-> estimated_time, says |-> "within limit",
                           limit |-> None]]

-----------------------------------------------------------------------------
(* The validate_time_constraint calls that are explored                     *)

MaxConfigured == 5

\* competitors of 1/10 minute, 1 minute, 1/4 minute, 17 1/2 minutes, and a
\* disabled one
CompetitorShapes ==
    { [enabled |-> TRUE,  new_urls |-> 1,  promo_urls |-> 1,  depth |-> 2, limit |-> 50,
       delay |-> Mills(1)],
      [enabled |-> TRUE,  new_urls |-> 3,  promo_urls |-> 3,  depth |-> 1, limit |-> 50,
       delay |-> 9500],
      [enabled |-> TRUE,  new_urls |-> 3,  promo_urls |-> 2,  depth |-> 3, limit |-> 15,
       delay |-> Mills(1)],
      [enabled |-> TRUE,  new_urls |-> 10, promo_urls |-> 10, depth |-> 5, limit |-> 1000,
       delay |-> Mills(10)],
      [enabled |-> FALSE, new_urls |-> 10, promo_urls |-> 10, depth |-> 5, limit |-> 1000,
       delay |-> Mills(10)] }

\* the max_minutes passed; None leaves it to the default
MaxMinutesArgs == {None, Some(1), Some(2), Some(35)}

ValidateTimeCall ==
    /\ IsNone(lastCall)
    /\ \E n \in 1..MaxConfigured : \E cfg \in [1..n -> CompetitorShapes] :
       \E arg \in MaxMinutesArgs :
          LET max_minutes == IF IsNone(arg) THEN DefaultMaxMinutes ELSE Get(arg)
          IN  lastCall' = Some([op |-> "validate_time_constraint", on |-> cfg,
                                max_minutes |-> max_minutes, defaulted |-> IsNone(arg),
                                result |-> validate_time_constraint(cfg, max_minutes)])
    /\ UNCHANGED <<productVars, promoVars, listVars, urlVars, today, pipeVars>>

TimeSpecInit == ProductInit /\ IdleInit /\ today = 1
TimeNext == ValidateTimeCall
TimeSpec == TimeSpecInit /\ [][TimeNext]_vars

-----------------------------------------------------------------------------
(* The pipeline: what surrounds a run                                       *)

\* t has sub as a substring (Python's `sub in t`)
Contains(t, sub) ==
    \E i \in 0..(Len(t) - Len(sub)) : SubSeq(t, i + 1, i + Len(sub)) = sub

TxtNew       == <<"n","e","w">>
TxtSale      == <<"s","a","l","e">>
TxtPromo     == <<"p","r","o","m","o">>
TxtDiscount  == <<"d","i","s","c","o","u","n","t">>
TxtClearance == <<"c","l","e","a","r","a","n","c","e">>
\* the terms process_competitor looks for in a promotion page's URL
promo_terms == {TxtSale, TxtPromo, TxtDiscount, TxtClearance}

\* run_full_pipeline: competitors[:2]
CompetitorLimit == 2
\* scrape_competitor_urls: new_urls[:3], promo_urls[:2], asyncio.sleep(1)
NewUrlLimit == 3
PromoUrlLimit == 2
PauseSeconds == 1

TxtPageX     == <<"h","t","t","p","s",":","/","/","a",".","b","/","x">>
TxtPageY     == <<"h","t","t","p","s",":","/","/","a",".","b","/","y">>
TxtPageZ     == <<"h","t","t","p","s",":","/","/","a",".","b","/","z">>
TxtPageW     == <<"h","t","t","p","s",":","/","/","a",".","b","/","w">>
TxtPageNew   == <<"h","t","t","p","s",":","/","/","a",".","b","/","N","E","W">>
TxtPageSale  == <<"h","t","t","p","s",":","/","/","a",".","b","/","s","a","l","e">>
TxtPageBoth  == <<"h","t","t","p","s",":","/","/","a",".","b","/","n","e","w","-","p","r","o","m","o">>
PageUrls == {TxtPageX, TxtPageY, TxtPageNew, TxtPageSale, TxtPageBoth}

\* a competitor entry of competitors.yml: a dict with name, new_urls, promo_urls
CompetitorEntry(name, new_urls, promo_urls) ==
    [name |-> name, new_urls |-> new_urls, promo_urls |-> promo_urls]

MaxCompetitors == 3
CompetitorNames == <<<<"A">>, <<"B">>, <<"C">>, <<"D">>, <<"E">>>>

\* what the extractor's JSON answer holds: one dict that would validate, one
\* that would not (no URL, a negative number, a one-character name), or nothing
\* (a failed call or an unparseable answer)
AnswerKinds == {"valid", "no_url", "negative", "short_name", "none"}

\* the ways a scrape request ends: success with markdown, success with no
\* markdown and no html, or failure (HTTP status, success false, exception, timeout)
FetchOutcomes == {"success", "no_content", "failed"}

ExportOutcomes == {"ok", "products_error", "promotions_error"}

Surroundings(credentials, file, competitors, fetches, answers) ==
    [credentials |-> credentials, file |-> file, competitors |-> competitors,
     fetches |-> fetches, answers |-> answers]

\* one competitor with one new URL and one promotion URL, every choice of the two
PairScenarios ==
    {Surroundings(TRUE, "ok", <<CompetitorEntry(CompetitorNames[1], <<u>>, <<v>>)>>,
                  {"success", "failed"}, {"valid", "none"}) :
        <<u, v>> \in PageUrls \X PageUrls}

\* one competitor whose extractor answers are dicts of every kind
AnswerScenarios ==
    {Surroundings(TRUE, "ok", <<CompetitorEntry(CompetitorNames[1], <<TxtPageX>>, <<TxtPageY>>)>>,
                  {"success"}, AnswerKinds)}

\* 1..MaxCompetitors competitors of one new and one promotion URL each
ListScenarios ==
    {Surroundings(TRUE, "ok",
                  [i \in 1..n |-> IF i % 2 = 1
                                   THEN CompetitorEntry(CompetitorNames[i], <<TxtPageX>>, <<TxtPageY>>)
                                   ELSE CompetitorEntry(CompetitorNames[i], <<TxtPageZ>>, <<TxtPageW>>)],
                  FetchOutcomes, {"valid", "none"}) : n \in 1..MaxCompetitors}

\* a competitor with more URLs than are scraped, one of them listed twice, and
\* a competitor with no URLs before another
UrlListScenarios ==
    {Surroundings(TRUE, "ok",
                  <<CompetitorEntry(CompetitorNames[1],
                                    <<TxtPageX, TxtPageY, TxtPageX, TxtPageZ>>,
                                    <<TxtPageSale, TxtPageW, TxtPageBoth>>)>>,
                  {"success", "failed"}, {"valid"}),
     Surroundings(TRUE, "ok",
                  <<CompetitorEntry(CompetitorNames[1], <<>>, <<>>),
                    CompetitorEntry(CompetitorNames[2], <<TxtPageX>>, <<TxtPageY>>)>>,
                  {"success", "failed"}, {"valid"})}

\* runs that cannot start: no competitor file, a file without the competitors
\* key, with competitors that is no list or an empty list, or no credentials
ConfigFiles == {"missing", "no_key", "not_list", "empty", "ok"}
BrokenScenarios ==
    {Surroundings(c, f,
                  IF f = "ok"
                  THEN <<CompetitorEntry(CompetitorNames[1], <<TxtPageX>>, <<TxtPageY>>)>>
                  ELSE <<>>,
                  {"success"}, {"valid"}) :
        <<c, f>> \in (BOOLEAN \X ConfigFiles) \ {<<TRUE, "ok">>}}

Scenarios ==
    PairScenarios \cup AnswerScenarios \cup ListScenarios \cup UrlListScenarios
        \cup BrokenScenarios

-----------------------------------------------------------------------------
(* ClaudeExtractor and CSVExporter                                          *)

\* the dicts of the extractor's JSON answer, keys that are absent held as None
AnswerProducts(kind) ==
    LET d == [BaseProductInput EXCEPT !["competitor"] = None,
                                      !["category"] = Some(Cat_FURNITURE),
                                      !["price"] = Some(Mills(899))]
    IN  CASE kind = "valid"      -> <<d>>
          [] kind = "no_url"     -> <<[d EXCEPT !["product_url"] = None]>>
          [] kind = "negative"   -> <<[d EXCEPT !["price"] = Some(0 - Mills(5))]>>
          [] kind = "short_name" -> <<[d EXCEPT !["product_name"] = Some(<<"A">>)]>>
          [] kind = "none"       -> <<>>

AnswerPromotions(kind) ==
    LET d == [BasePromotionInput EXCEPT !["competitor"] = None,
                                        !["discount_value"] = Some(Mills(20))]
    IN  CASE kind = "valid"      -> <<d>>
          [] kind = "no_url"     -> <<[d EXCEPT !["promo_url"] = None]>>
          [] kind = "negative"   -> <<[d EXCEPT !["discount_value"] = Some(0 - Mills(5))]>>
          [] kind = "short_name" -> <<[d EXCEPT !["promo_title"] = Some(<<"A">>)]>>
          [] kind = "none"       -> <<>>

\* ClaudeExtractor.extract_products: the answer's dicts, competitor set and
\* brand filled in; [] when the call or the parsing failed
extract_products(answer, competitor) ==
    [i \in 1..Len(answer) |->
        [answer[i] EXCEPT !["competitor"] = Some(competitor),
                          !["brand"] = IF answer[i]["brand"] \in {None, Some(<<>>)}
                                       THEN Some(competitor) ELSE @]]

\* ClaudeExtractor.extract_promotions
extract_promotions(answer, competitor) ==
    [i \in 1..Len(answer) |-> [answer[i] EXCEPT !["competitor"] = Some(competitor)]]

product_columns ==
    <<"competitor", "product_name", "brand", "category", "price", "product_url",
      "image_url", "collected_at">>
promotion_columns ==
    <<"competitor", "promo_title", "promo_type", "discount_value", "promo_code",
      "promo_url", "description", "collected_at">>

RECURSIVE NatStr(_)
NatStr(n) == IF n < 10 THEN <<Digits[n + 1]>> ELSE NatStr(n \div 10) \o <<Digits[(n % 10) + 1]>>

\* str(value) of a JSON number held in thousandths
NumStr(m) ==
    LET a == Abs(m)
        frac == a % Mills(1)
        d3 == <<Digits[(frac \div 100) + 1], Digits[((frac \div 10) % 10) + 1],
                Digits[(frac % 10) + 1]>>
        cut == IF frac % 100 = 0 THEN 1 ELSE IF frac % 10 = 0 THEN 2 ELSE 3
    IN  (IF m < 0 THEN <<"-">> ELSE <<>>) \o NatStr(a \div Mills(1))
            \o (IF frac = 0 THEN <<>> ELSE <<".">> \o Upto(d3, cut))

NumericColumns == {"price", "discount_value"}

\* the row CSVExporter writes for one dict: each column's value by get(col, ''),
\* None as '', numbers by str, text stripped; an empty collected_at becomes the
\* clock reading
CsvRow(columns, d, now) ==
    LET value(col) ==
            IF IsNone(d[col]) THEN <<>>
            ELSE IF col \in NumericColumns THEN NumStr(Get(d[col]))
            ELSE Strip(Get(d[col]))
    IN  [i \in 1..Len(columns) |->
            IF columns[i] = "collected_at" /\ value(columns[i]) = <<>>
            THEN NatStr(now) ELSE value(columns[i])]

\* CSVExporter.export_products / export_promotions: one row per dict, in order
CsvRows(columns, dicts, now) == [i \in 1..Len(dicts) |-> CsvRow(columns, dicts[i], now)]

-----------------------------------------------------------------------------
(* The pipeline run: main, run_full_pipeline, process_competitor,           *)
(* scrape_competitor_urls, export_results                                   *)

restVars == <<productVars, promoVars, listVars, urlVars, today, lastCall>>

Event(kind, competitor, url, n) ==
    [kind |-> kind, competitor |-> competitor, url |-> url, n |-> n]

\* the competitors of the file, none left out
competitors_unlimited == scenario.competitors

\* config.get('competitors', [])[:2]
competitors == Upto(scenario.competitors, Min(CompetitorLimit, Len(scenario.competitors)))

\* scrape_competitor_urls: new_urls[:3], promo_urls[:2] of a competitor entry
scrape_new_urls(c) == Upto(c.new_urls, Min(NewUrlLimit, Len(c.new_urls)))
scrape_promo_urls(c) == Upto(c.promo_urls, Min(PromoUrlLimit, Len(c.promo_urls)))
\* the URLs with the promotion pages put first
all_urls_promo_first(c) == scrape_promo_urls(c) \o scrape_new_urls(c)
\* all_urls = new_urls + promo_urls
all_urls(c) == scrape_new_urls(c) \o scrape_promo_urls(c)

InSeq(x, q) == \E i \in 1..Len(q) : q[i] = x

\* result['url_type'] = 'new' if url in new_urls else 'promo'
url_type(url, c) == IF InSeq(url, scrape_new_urls(c)) THEN "new" ELSE "promo"

\* process_competitor: is the page one to extract products from
wants_products(page) == page.url_type = "new" \/ Contains(Lower(page.url), TxtNew)

\* process_competitor: is the page one to extract promotions from
wants_promotions(page) ==
    page.url_type = "promo" \/ \E term \in promo_terms : Contains(Lower(page.url), term)

\* process_competitor: a page that failed or has no content is passed over
page_usable(page) == page.status = "success" /\ page.content

\* main: CompetitorMonitorPipeline() builds the collector, whose get_settings()
\* raises without credentials; main then exits with 1
Construct ==
    /\ pc = "main"
    /\ IF scenario.credentials
       THEN /\ pc' = "load"
            /\ runResult' = runResult
       ELSE /\ pc' = "exit"
            /\ runResult' = Some(FALSE)
    /\ UNCHANGED <<scenario, cur, urlQueue, inFlight, scraped, pages, competitor_products,
                   competitor_promotions, all_products, all_promotions, product_csv,
                   promotion_csv, events, restVars>>

\* a loader that hands on whatever list of competitors it finds
LoadConfigUnchecked ==
    /\ pc = "load"
    /\ pc' = "competitor"
    /\ cur' = 1
    /\ runResult' = runResult
    /\ UNCHANGED <<scenario, urlQueue, inFlight, scraped, pages, competitor_products,
                   competitor_promotions, all_products, all_promotions, product_csv,
                   promotion_csv, events, restVars>>

\* run_full_pipeline: load_competitor_config() raises for a file that is
\* missing or has no usable competitors list; the except returns False
LoadConfig ==
    /\ pc = "load"
    /\ IF scenario.file = "ok" /\ competitors # <<>>
       THEN /\ pc' = "competitor"
            /\ cur' = 1
            /\ runResult' = runResult
       ELSE /\ pc' = "exit"
            /\ cur' = cur
            /\ runResult' = Some(FALSE)
    /\ UNCHANGED <<scenario, urlQueue, inFlight, scraped, pages, competitor_products,
                   competitor_promotions, all_products, all_promotions, product_csv,
                   promotion_csv, events, restVars>>

\* the loop of run_full_pipeline enters process_competitor, which enters
\* scrape_competitor_urls
StartCompetitor ==
    /\ pc = "competitor"
    /\ cur <= Len(competitors)
    /\ urlQueue' = all_urls(competitors[cur])
    /\ scraped' = <<>>
    /\ events' = Append(events, Event("process", cur, <<>>, 0))
    /\ pc' = "scrape"
    /\ UNCHANGED <<scenario, cur, inFlight, pages, competitor_products,
                   competitor_promotions, all_products, all_promotions, product_csv,
                   promotion_csv, runResult, restVars>>

\* scrape_url: the request goes out
FetchStart ==
    /\ pc = "scrape"
    /\ urlQueue # <<>>
    /\ inFlight' = inFlight + 1
    /\ events' = Append(events, Event("fetch", cur, Head(urlQueue), 0))
    /\ pc' = "fetching"
    /\ UNCHANGED <<scenario, cur, urlQueue, scraped, pages, competitor_products,
                   competitor_promotions, all_products, all_promotions, product_csv,
                   promotion_csv, runResult, restVars>>

\* scrape_url returns: a success dict, or a failed dict for any other answer,
\* exception or timeout; scrape_competitor_urls tags and keeps it
FetchEnd ==
    /\ pc = "fetching"
    /\ \E outcome \in scenario.fetches :
          scraped' = Append(scraped,
                        [url |-> Head(urlQueue),
                         status |-> IF outcome = "failed" THEN "failed" ELSE "success",
                         content |-> outcome = "success",
                         competitor |-> competitors[cur].name,
                         url_type |-> url_type(Head(urlQueue), competitors[cur])])
    /\ inFlight' = inFlight - 1
    /\ pc' = "pause"
    /\ UNCHANGED <<scenario, cur, urlQueue, pages, competitor_products,
                   competitor_promotions, all_products, all_promotions, product_csv,
                   promotion_csv, events, runResult, restVars>>

\* await asyncio.sleep(1), then the next URL
Pause ==
    /\ pc = "pause"
    /\ events' = Append(events, Event("sleep", cur, Head(urlQueue), PauseSeconds))
    /\ urlQueue' = Tail(urlQueue)
    /\ pc' = "scrape"
    /\ UNCHANGED <<scenario, cur, inFlight, scraped, pages, competitor_products,
                   competitor_promotions, all_products, all_promotions, product_csv,
                   promotion_csv, runResult, restVars>>

\* a process_competitor whose failure ends the run
ScrapeDoneRaising ==
    /\ pc = "scrape"
    /\ urlQueue = <<>>
    /\ IF scraped = <<>>
       THEN /\ pc' = "exit"
            /\ runResult' = Some(FALSE)
            /\ events' = Append(events, Event("failed", cur, <<>>, 0))
       ELSE /\ pc' = "page"
            /\ runResult' = runResult
            /\ events' = events
    /\ pages' = scraped
    /\ competitor_products' = <<>>
    /\ competitor_promotions' = <<>>
    /\ UNCHANGED <<scenario, cur, urlQueue, inFlight, scraped, all_products, all_promotions,
                   product_csv, promotion_csv, restVars>>

\* scrape_competitor_urls returns; process_competitor returns False for no
\* results and otherwise starts on the pages
ScrapeDone ==
    /\ pc = "scrape"
    /\ urlQueue = <<>>
    /\ IF scraped = <<>>
       THEN /\ pc' = "competitor"
            /\ cur' = cur + 1
            /\ events' = Append(events, Event("failed", cur, <<>>, 0))
       ELSE /\ pc' = "page"
            /\ cur' = cur
            /\ events' = events
    /\ pages' = scraped
    /\ competitor_products' = <<>>
    /\ competitor_promotions' = <<>>
    /\ UNCHANGED <<scenario, urlQueue, inFlight, scraped, all_products, all_promotions,
                   product_csv, promotion_csv, runResult, restVars>>

\* process_competitor: a page that failed or is empty is passed over
PageSkip ==
    /\ pc = "page"
    /\ pages # <<>>
    /\ ~page_usable(Head(pages))
    /\ pages' = Tail(pages)
    /\ UNCHANGED <<scenario, pc, cur, urlQueue, inFlight, scraped, competitor_products,
                   competitor_promotions, all_products, all_promotions, product_csv,
                   promotion_csv, events, runResult, restVars>>

\* process_competitor: products of a page, where it is a product page
PageProducts ==
    /\ pc = "page"
    /\ pages # <<>>
    /\ page_usable(Head(pages))
    /\ IF wants_products(Head(pages))
       THEN \E kind \in scenario.answers :
              LET products == extract_products(AnswerProducts(kind), Head(pages).competitor)
              IN  /\ competitor_products' = competitor_products \o products
                  /\ events' = Append(events, Event("extract_products", cur, Head(pages).url,
                                                    Len(products)))
       ELSE UNCHANGED <<competitor_products, events>>
    /\ pc' = "page_promotions"
    /\ UNCHANGED <<scenario, cur, urlQueue, inFlight, scraped, pages,
                   competitor_promotions, all_products, all_promotions, product_csv,
                   promotion_csv, runResult, restVars>>

\* process_competitor: promotions of the page, where it is a promotion page
PagePromotions ==
    /\ pc = "page_promotions"
    /\ IF wants_promotions(Head(pages))
       THEN \E kind \in scenario.answers :
              LET promotions == extract_promotions(AnswerPromotions(kind), Head(pages).competitor)
              IN  /\ competitor_promotions' = competitor_promotions \o promotions
                  /\ events' = Append(events, Event("extract_promotions", cur, Head(pages).url,
                                                    Len(promotions)))
       ELSE UNCHANGED <<competitor_promotions, events>>
    /\ pages' = Tail(pages)
    /\ pc' = "page"
    /\ UNCHANGED <<scenario, cur, urlQueue, inFlight, scraped, competitor_products,
                   all_products, all_promotions, product_csv, promotion_csv, runResult,
                   restVars>>

\* process_competitor: the competitor's results join the run's; back in the loop
CompetitorDone ==
    /\ pc = "page"
    /\ pages = <<>>
    /\ all_products' = all_products \o competitor_products
    /\ all_promotions' = all_promotions \o competitor_promotions
    /\ events' = Append(events, Event("processed", cur, <<>>, 0))
    /\ cur' = cur + 1
    /\ pc' = "competitor"
    /\ UNCHANGED <<scenario, urlQueue, inFlight, scraped, pages, competitor_products,
                   competitor_promotions, product_csv, promotion_csv, runResult, restVars>>

\* export_results: products are written if there are any, then promotions;
\* an error in either ends the export
ExportResults ==
    /\ pc = "competitor"
    /\ cur > Len(competitors)
    /\ \E outcome \in ExportOutcomes :
          /\ outcome = "products_error" => all_products # <<>>
          /\ outcome = "promotions_error" => all_promotions # <<>>
          /\ product_csv' = IF all_products # <<>> /\ outcome # "products_error"
                            THEN Some(CsvRows(product_columns, all_products, today))
                            ELSE None
          /\ promotion_csv' = IF all_promotions # <<>> /\ outcome = "ok"
                              THEN Some(CsvRows(promotion_columns, all_promotions, today))
                              ELSE None
          /\ events' = Append(events, Event(IF outcome = "ok" THEN "export" ELSE "export_error",
                                            0, <<>>, 0))
    /\ pc' = "summary"
    /\ UNCHANGED <<scenario, cur, urlQueue, inFlight, scraped, pages, competitor_products,
                   competitor_promotions, all_products, all_promotions, runResult, restVars>>

\* run_full_pipeline prints the summary and returns True
Summary ==
    /\ pc = "summary"
    /\ runResult' = Some(TRUE)
    /\ pc' = "exit"
    /\ UNCHANGED <<scenario, cur, urlQueue, inFlight, scraped, pages, competitor_products,
                   competitor_promotions, all_products, all_promotions, product_csv,
                   promotion_csv, events, restVars>>

PipelineInit ==
    /\ ProductInit
    /\ NoCallsInit
    /\ today = 1
    /\ scenario \in Scenarios
    /\ pc = "main"
    /\ cur = 0
    /\ urlQueue = <<>>
    /\ inFlight = 0
    /\ scraped = <<>>
    /\ pages = <<>>
    /\ competitor_products = <<>>
    /\ competitor_promotions = <<>>
    /\ all_products = <<>>
    /\ all_promotions = <<>>
    /\ product_csv = None
    /\ promotion_csv = None
    /\ events = <<>>
    /\ runResult = None

PipelineNext ==
    \/ Construct \/ LoadConfig \/ StartCompetitor \/ FetchStart \/ FetchEnd \/ Pause
    \/ ScrapeDone \/ PageSkip \/ PageProducts \/ PagePromotions \/ CompetitorDone
    \/ ExportResults \/ Summary

PipelineSpec == PipelineInit /\ [][PipelineNext]_vars

\* every request, extractor call and pause ends (30 s timeouts, a 1 s sleep),
\* and the steps between them are straight-line code
PipelineRunSpec == PipelineSpec /\ WF_vars(PipelineNext)

-----------------------------------------------------------------------------
(* The estimates of a valid Competitor that are explored                    *)

MaxUrls == 3
\* crawl.limit and crawl.delay (thousandths of a second) at and between their
\* bounds, and around the tens that limit // 10 turns on
CrawlLimits == {1, 9, 10, 11, 19, 20, 39, 40, 50, 1000}
CrawlDelays == {100, 500, Mills(1), 2500, Mills(10)}

\* c.get_estimated_pages() and c.get_estimated_time_minutes() of a Competitor
\* whose fields are within the declared bounds
EstimateCall ==
    /\ IsNone(lastCall)
    /\ \E n \in 1..MaxUrls, m \in 1..MaxUrls, depth \in 1..5, limit \in CrawlLimits,
          delay \in CrawlDelays, enabled \in BOOLEAN :
          LET c == [enabled |-> enabled, new_urls |-> n, promo_urls |-> m, depth |-> depth,
                    limit |-> limit, delay |-> delay]
          IN  lastCall' = Some([op |-> "estimate", on |-> c,
                                pages |-> get_estimated_pages(c),
                                minutes |-> get_estimated_time_minutes(c)])
    /\ UNCHANGED <<productVars, promoVars, listVars, urlVars, today, pipeVars>>

EstimateSpecInit == ProductInit /\ IdleInit /\ today = 1
EstimateNext == EstimateCall
EstimateSpec == EstimateSpecInit /\ [][EstimateNext]_vars

-----------------------------------------------------------------------------
(* TextValidator                                                            *)

\* chr(0x00) and chr(0x7f), each one character of a text
Chr00 == "<00>"
Chr7f == "<7f>"

\* the characters matched by [\x00-\x1f\x7f-\x9f], among those used
ControlChars == {"\t", "\n", Chr00, Chr7f}

\* re.sub(r'\s+', ' ', s) from index i on: every maximal run of whitespace
\* becomes one space
RECURSIVE SubWhitespaceFrom(_, _)
SubWhitespaceFrom(s, i) ==
    IF i > Len(s) THEN <<>>
    ELSE IF s[i] \in Spaces
         THEN <<" ">> \o SubWhitespaceFrom(s, FirstNotIn(s, i, Spaces))
         ELSE <<s[i]>> \o SubWhitespaceFrom(s, i + 1)

\* re.sub(r'[\x00-\x1f\x7f-\x9f]', '', s)
RemoveControl(s) == SelectSeq(s, LAMBDA c : c \notin ControlChars)

\* TextValidator.clean_text
clean_text(text) ==
    IF text = <<>> THEN <<>>
    ELSE RemoveControl(SubWhitespaceFrom(Strip(text), 1))

\* re.search(r'[a-zA-Z0-9]', s)
HasAlnum(s) ==
    \E i \in 1..Len(s) :
        \/ IsDigit(s[i])
        \/ \E k \in 1..Len(LowerLetters) : s[i] = LowerLetters[k] \/ s[i] = UpperLetters[k]

\* TextValidator.is_meaningful_text with the default min_length
is_meaningful_text(text) ==
    IF text = <<>> THEN FALSE
    ELSE LET cleaned == clean_text(text)
         IN  IF Len(cleaned) < 2 THEN FALSE ELSE HasAlnum(cleaned)

MaxText == 5
TextChars == {"a", " ", "\t", Chr00, Chr7f}
Texts == UNION {[1..n -> TextChars] : n \in 0..MaxText}

\* TextValidator.clean_text(text)
CleanTextCall ==
    /\ IsNone(lastCall)
    /\ \E text \in Texts :
          lastCall' = Some([op |-> "clean_text", text |-> text, result |-> clean_text(text)])
    /\ UNCHANGED <<productVars, promoVars, listVars, urlVars, today, pipeVars>>

TextSpecInit == ProductInit /\ IdleInit /\ today = 1
TextNext == CleanTextCall
TextSpec == TextSpecInit /\ [][TextNext]_vars

-----------------------------------------------------------------------------
(* DataQualityValidator                                                     *)

\* A value of a raw dictionary: the key is absent, or it holds None, a str or
\* a number (in thousandths).
Absent     == [kind |-> "absent", text |-> <<>>, num |-> 0]
NoneValue  == [kind |-> "none", text |-> <<>>, num |-> 0]
StrValue(t) == [kind |-> "str", text |-> t, num |-> 0]
NumValue(n) == [kind |-> "num", text |-> <<>>, num |-> n]

\* bool(d.get(key)): a missing key, None, "" and 0 are false
Truthy(v) ==
    CASE v.kind = "str" -> v.text # <<>>
      [] v.kind = "num" -> v.num # 0
      [] OTHER -> FALSE

\* URLValidator.is_valid_url: validators.url on a str of the kind used here
\* (an http or https URL, or no URL at all); on any other value the call is
\* falsy or raises, and the handler returns False
is_valid_url(v) == v.kind = "str" /\ HttpUrlOk(v.text)

\* float(v) of a true value: a number as it is, a str of decimal digits
\* (surrounding whitespace allowed) as its value, any other str ValueError
ToFloat(v) ==
    IF v.kind = "num" THEN Ok(v.num)
    ELSE IF Strip(v.text) # <<>> /\ AllDigits(Strip(v.text)) THEN Ok(Mills(ToInt(Strip(v.text))))
    ELSE Err

\* PriceValidator.is_reasonable_price with the default range 0.01..100000.0
is_reasonable_price(price) == 10 <= price /\ price <= Mills(100000)

\* TextValidator.is_meaningful_text on a true value of a raw dictionary:
\* text.strip() in clean_text raises AttributeError on a value that is no str
is_meaningful_value(v) ==
    IF v.kind = "str" THEN Returned(is_meaningful_text(v.text)) ELSE Raised

\* the messages of the required-fields loop
RECURSIVE MissingFields(_, _)
MissingFields(d, required_fields) ==
    IF required_fields = <<>> THEN <<>>
    ELSE (IF Truthy(d[Head(required_fields)])
          THEN <<>> ELSE <<"Missing required field: " \o Head(required_fields)>>)
         \o MissingFields(d, Tail(required_fields))

\* DataQualityValidator.validate_product_data
validate_product_data(product_data) ==
    LET missing == MissingFields(product_data, <<"competitor", "product_name", "product_url">>)
        url == IF Truthy(product_data.product_url) /\ ~is_valid_url(product_data.product_url)
               THEN <<"Invalid product URL">> ELSE <<>>
        price == ToFloat(product_data.price)
        priced == IF ~Truthy(product_data.price) THEN <<>>
                  ELSE IF ~price.ok THEN <<"Invalid price format">>
                  ELSE IF ~is_reasonable_price(price.v) THEN <<"Price outside reasonable range">>
                  ELSE <<>>
        name == is_meaningful_value(product_data.product_name)
    IN  IF ~Truthy(product_data.product_name) THEN Returned(missing \o url \o priced)
        ELSE IF name.raised THEN Raised
        ELSE Returned(missing \o url \o priced
                        \o (IF name.v THEN <<>> ELSE <<"Product name is not meaningful">>))

TxtPercentage == <<"p","e","r","c","e","n","t","a","g","e">>

\* promotion_data.get('promo_type', '').lower(): AttributeError on a value
\* that is no str
LoweredType(v) ==
    IF v.kind = "absent" THEN Returned(<<>>)
    ELSE IF v.kind = "str" THEN Returned(Lower(v.text))
    ELSE Raised

\* DataQualityValidator.validate_promotion_data
validate_promotion_data(promotion_data) ==
    LET missing == MissingFields(promotion_data,
                                 <<"competitor", "promo_title", "promo_url", "promo_type">>)
        url == IF Truthy(promotion_data.promo_url) /\ ~is_valid_url(promotion_data.promo_url)
               THEN <<"Invalid promotion URL">> ELSE <<>>
        discount == ToFloat(promotion_data.discount_value)
        promo_type == LoweredType(promotion_data.promo_type)
        checked == Truthy(promotion_data.discount_value) /\ discount.ok
        discounted ==
            IF ~Truthy(promotion_data.discount_value) THEN <<>>
            ELSE IF ~discount.ok THEN <<"Invalid discount value format">>
            ELSE IF promo_type.raised THEN <<>>
            ELSE IF Contains(promo_type.v, TxtPercentage) /\ discount.v > Mills(100)
                 THEN <<"Percentage discount cannot exceed 100%">>
            ELSE IF discount.v < 0 THEN <<"Discount value cannot be negative">>
            ELSE IF discount.v > Mills(10000) THEN <<"Discount value seems unreasonably high">>
            ELSE <<>>
        title == is_meaningful_value(promotion_data.promo_title)
    IN  IF checked /\ promo_type.raised THEN Raised
        ELSE IF ~Truthy(promotion_data.promo_title) THEN Returned(missing \o url \o discounted)
        ELSE IF title.raised THEN Raised
        ELSE Returned(missing \o url \o discounted
                        \o (IF title.v THEN <<>> ELSE <<"Promotion title is not meaningful">>))

\* total_checks of the two data types
total_checks_product == 8
total_checks_promotion == 7

\* the score with the product checklist size for both data types
calculate_quality_score_one_size(data, data_type) ==
    IF data_type \notin {"product", "promotion"} THEN Returned(Zero)
    ELSE LET errors == IF data_type = "product" THEN validate_product_data(data)
                       ELSE validate_promotion_data(data)
             total_checks == total_checks_product
         IN  IF errors.raised THEN Raised
             ELSE IF total_checks - Len(errors.v) < 0 THEN Returned(Zero)
             ELSE Returned(Quotient(total_checks - Len(errors.v), total_checks))

\* DataQualityValidator.calculate_quality_score
calculate_quality_score(data, data_type) ==
    IF data_type \notin {"product", "promotion"} THEN Returned(Zero)
    ELSE LET errors == IF data_type = "product" THEN validate_product_data(data)
                       ELSE validate_promotion_data(data)
             total_checks == IF data_type = "product" THEN total_checks_product
                             ELSE total_checks_promotion
         IN  IF errors.raised THEN Raised
             ELSE IF total_checks - Len(errors.v) < 0 THEN Returned(Zero)
             ELSE Returned(Quotient(total_checks - Len(errors.v), total_checks))

\* the raw dictionaries that are explored
TxtAb == <<"a","b">>
TxtDashes == <<"-","-">>
TxtFifty == <<"5","0">>
RawNames == {Absent, NoneValue, StrValue(<<>>), StrValue(<<"a">>), StrValue(TxtAb),
             StrValue(TxtDashes), NumValue(Mills(7))}
RawUrls == {Absent, StrValue(TxtPageX), StrValue(<<"x">>), NumValue(Mills(7))}
RawPrices == {Absent, NoneValue, NumValue(0), NumValue(5), NumValue(Mills(50)),
              NumValue(Mills(100001)), StrValue(TxtFifty), StrValue(TxtAb)}
RawTypes == {Absent, NoneValue, StrValue(Type_PERCENTAGE_OFF), StrValue(Upper(TxtPercentage)),
             StrValue(Type_DOLLAR_OFF), NumValue(Mills(3))}
RawDiscounts == {Absent, NumValue(0), NumValue(Mills(50)), NumValue(Mills(150)),
                 NumValue(0 - Mills(1)), NumValue(Mills(10001)), StrValue(TxtFifty),
                 StrValue(TxtAb)}
RawProducts ==
    [competitor : {Absent, StrValue(<<"A">>)}, product_name : RawNames,
     product_url : RawUrls, price : RawPrices]
RawPromotions ==
    [competitor : {Absent, StrValue(<<"A">>)}, promo_title : RawNames, promo_url : RawUrls,
     promo_type : RawTypes, discount_value : RawDiscounts]

\* DataQualityValidator.validate_product_data(product_data)
ValidateProductDataCall ==
    /\ IsNone(lastCall)
    /\ \E d \in RawProducts :
          lastCall' = Some([op |-> "validate_product_data", data |-> d,
                            result |-> validate_product_data(d)])
    /\ UNCHANGED <<productVars, promoVars, listVars, urlVars, today, pipeVars>>

\* DataQualityValidator.validate_promotion_data(promotion_data)
ValidatePromotionDataCall ==
    /\ IsNone(lastCall)
    /\ \E d \in RawPromotions :
          lastCall' = Some([op |-> "validate_promotion_data", data |-> d,
                            result |-> validate_promotion_data(d)])
    /\ UNCHANGED <<productVars, promoVars, listVars, urlVars, today, pipeVars>>

\* DataQualityValidator.calculate_quality_score(data, data_type)
QualityScoreCall ==
    /\ IsNone(lastCall)
    /\ \E data_type \in {"product", "promotion", "other"} :
          \E d \in (IF data_type = "promotion" THEN RawPromotions ELSE RawProducts) :
              lastCall' = Some([op |-> "calculate_quality_score", data |-> d,
                                data_type |-> data_type,
                                result |-> calculate_quality_score(d, data_type)])
    /\ UNCHANGED <<productVars, promoVars, listVars, urlVars, today, pipeVars>>

QualitySpecInit == ProductInit /\ IdleInit /\ today = 1
QualityNext == ValidateProductDataCall \/ ValidatePromotionDataCall \/ QualityScoreCall
QualitySpec == QualitySpecInit /\ [][QualityNext]_vars

-----------------------------------------------------------------------------
(* Properties of Product construction                                       *)

InRange(o, lo, hi) == IsNone(o) \/ (Get(o) >= lo /\ Get(o) <= hi)
AtMostLong(o, n) == IsNone(o) \/ Len(Get(o)) <= n

\* every field but product_name is present where required and inside its limits
ProductInputOtherwiseInLimits(input) ==
    /\ ~IsNone(input.competitor)
    /\ Len(Get(input.competitor)) >= 1
    /\ Len(Get(input.competitor)) <= 100
    /\ ~IsNone(input.product_url)
    /\ HttpUrlOk(Get(input.product_url))
    /\ AtMostLong(input.brand, 100)
    /\ (IsNone(input.category) \/ Get(input.category) \in ProductCategory)
    /\ InRange(input.price, 0, Mills(100000))
    /\ (IsNone(input.price) \/ Get(input.price) % 10 = 0)
    /\ InRange(input.original_price, 0, Mills(100000))
    /\ (IsNone(input.original_price) \/ Get(input.original_price) % 10 = 0)
    /\ (IsNone(input.image_url) \/ HttpUrlOk(Get(input.image_url)))
    /\ AtMostLong(input.description, 2000)
    /\ AtMostLong(input.availability, 50)
    /\ InRange(input.rating, 0, Mills(5))
    /\ (IsNone(input.review_count) \/ Get(input.review_count) >= 0)
    /\ AtMostLong(input.sku, 100)
    /\ InRange(input.extraction_confidence, 0, Mills(1))
    /\ AtMostLong(input.source_html_snippet, 5000)

ProductJustConstructed == productInput # NoInput /\ productAssigns = 0

ConstructedProductsAreExportable ==
    ~IsNone(product) => product_is_valid_for_export(Get(product))

\* C1 as stated: every Product input whose competitor, URL and optional fields
\* are within their limits and whose product_name has a whitespace-collapsed
\* length between 2 and 500 constructs a Product that is valid for export, and
\* no constructed Product is ever not valid for export.
C1_CollapsedLengthSuffices ==
    /\ (/\ ProductJustConstructed
        /\ ProductInputOtherwiseInLimits(productInput)
        /\ ~IsNone(productInput.product_name)
        /\ Len(CollapseWhitespace(Get(productInput.product_name))) >= 2
        /\ Len(CollapseWhitespace(Get(productInput.product_name))) <= 500)
       => (productError = {} /\ ~IsNone(product))
    /\ ConstructedProductsAreExportable

\* C1 amended: the same with the 500-character limit applied to the
\* product_name as supplied and the lower limit of 2 to its whitespace-collapsed
\* form.
C1_ValidInputConstructsExportable ==
    /\ (/\ ProductJustConstructed
        /\ ProductInputOtherwiseInLimits(productInput)
        /\ ~IsNone(productInput.product_name)
        /\ Len(Get(productInput.product_name)) <= 500
        /\ Len(CollapseWhitespace(Get(productInput.product_name))) >= 2)
       => (productError = {} /\ ~IsNone(product))
    /\ ConstructedProductsAreExportable

\* a name that needed collapsing was accepted, next to limit-sized optional fields
C1_Witness ==
    /\ ProductJustConstructed
    /\ ~IsNone(product)
    /\ ProductInputOtherwiseInLimits(productInput)
    /\ Get(productInput.product_name) # Get(product).product_name
    /\ Len(Get(productInput.product_name)) = 500

\* C2: a price or original_price below 0 or above 100000 fails construction,
\* no Product holds a present price outside [0, 100000], and the prices 0 and
\* 100000 themselves are accepted.
C2_PriceOutOfRangeFails ==
    /\ \A f \in {"price", "original_price"} :
          /\ (ProductJustConstructed /\ ~IsNone(productInput[f])
                /\ (Get(productInput[f]) < 0 \/ Get(productInput[f]) > Mills(100000)))
             => (IsNone(product) /\ f \in productError)
          /\ (ProductJustConstructed /\ productInput[f] \in {Some(0), Some(Mills(100000))})
             => f \notin productError
          /\ ~IsNone(product) => InRange(Get(product)[f], 0, Mills(100000))
    /\ (productAssigns > 0 /\ ~IsNone(product)) =>
          \A f \in {"price", "original_price"} : InRange(Get(product)[f], 0, Mills(100000))

\* a price just above the ceiling was rejected
C2_Witness ==
    /\ ProductJustConstructed
    /\ productInput.price = Some(Mills(100000) + 10)
    /\ productError = {"price"}
    /\ IsNone(product)

\* C5 as stated: construction never fails on the category; a category string
\* is stored as its lowercased member, or as "other" when it matches none.
C5_CategoryNeverFails ==
    ProductJustConstructed =>
        /\ "category" \notin productError
        /\ (~IsNone(product) /\ ~IsNone(productInput.category)
              /\ Get(productInput.category) # <<>>) =>
              Get(product).category =
                 IF Lower(Get(productInput.category)) \in ProductCategory
                 THEN Some(Lower(Get(productInput.category)))
                 ELSE Some(Cat_OTHER)

\* C7: two Products with the same competitor and the same product_url have the
\* same unique key, the competitor, a colon and the URL, whatever else differs.
C7_KeyFromCompetitorAndUrl ==
    (~IsNone(product) /\ ~IsNone(prevProduct)) =>
        LET p == Get(product)
            q == Get(prevProduct)
            k == product_get_unique_key(p)
        IN  /\ (p.competitor = q.competitor /\ p.product_url = q.product_url)
                  => k = product_get_unique_key(q)
            /\ Len(k) = Len(p.competitor) + 1 + Len(p.product_url)
            /\ StartsWith(k, p.competitor)
            /\ k[Len(p.competitor) + 1] = ":"
            /\ From(k, Len(p.competitor) + 1) = p.product_url

\* two records that differ in their names share competitor, URL and key
C7_Witness ==
    /\ ~IsNone(product)
    /\ ~IsNone(prevProduct)
    /\ Get(product).competitor = Get(prevProduct).competitor
    /\ Get(product).product_url = Get(prevProduct).product_url
    /\ Get(product).product_name # Get(prevProduct).product_name
    /\ product_get_unique_key(Get(product)) = product_get_unique_key(Get(prevProduct))

-----------------------------------------------------------------------------
(* Properties of Promotion construction                                     *)

TxtSAVE20 == <<"S","A","V","E","2","0">>
TxtSAVE10 == <<"S","A","V","E","1","0">>

PromotionJustConstructed == promoInput # NoPromoInput /\ promoAssigns = 0

\* C3: a percentage_off promotion with a discount_value above 100 fails
\* construction whatever the other fields are; one within [0, 100] passes the
\* discount check.
C3_PercentageOver100Fails ==
    (PromotionJustConstructed /\ promoInput.promo_type = Some(Type_PERCENTAGE_OFF)
        /\ ~IsNone(promoInput.discount_value)) =>
        /\ Get(promoInput.discount_value) > Mills(100)
              => (IsNone(promotion) /\ "discount_value" \in promoError)
        /\ (Get(promoInput.discount_value) >= 0 /\ Get(promoInput.discount_value) <= Mills(100))
              => "discount_value" \notin promoError

\* 150 percent was rejected on the discount alone
C3_Witness ==
    /\ PromotionJustConstructed
    /\ promoInput.promo_type = Some(Type_PERCENTAGE_OFF)
    /\ promoInput.discount_value = Some(Mills(150))
    /\ promoError = {"discount_value"}
    /\ IsNone(promotion)

\* C4: an end_date before the start_date fails construction; an end_date on or
\* after the start_date, or a missing date, passes the date check.
C4_EndBeforeStartFails ==
    PromotionJustConstructed =>
        IF ~IsNone(promoInput.start_date) /\ ~IsNone(promoInput.end_date)
              /\ Get(promoInput.end_date) < Get(promoInput.start_date)
        THEN IsNone(promotion) /\ "end_date" \in promoError
        ELSE "end_date" \notin promoError /\ "start_date" \notin promoError

\* an end one day before the start was rejected on the date alone
C4_Witness ==
    /\ PromotionJustConstructed
    /\ promoInput.start_date = Some(2)
    /\ promoInput.end_date = Some(1)
    /\ promoError = {"end_date"}
    /\ IsNone(promotion)

\* text t without the leading token P and the whitespace after it
WithoutPrefix(t, P) == IF StartsWith(t, P) THEN Strip(From(t, Len(P))) ELSE t

\* the input trimmed and uppercased, with the one known token it starts with removed
OnePrefixRemoved(raw) ==
    LET t == Upper(Strip(raw))
    IN  IF \E i \in 1..Len(prefixes_to_remove) : StartsWith(t, prefixes_to_remove[i])
        THEN WithoutPrefix(t, prefixes_to_remove[
                 CHOOSE i \in 1..Len(prefixes_to_remove) : StartsWith(t, prefixes_to_remove[i])])
        ELSE t

\* the input trimmed and uppercased, then CODE:, PROMO:, USE: and COUPON: removed
\* in that order, each where it leads what is left
PrefixesRemovedInOrder(raw) ==
    WithoutPrefix(WithoutPrefix(WithoutPrefix(WithoutPrefix(
        Upper(Strip(raw)), Prefix_CODE), Prefix_PROMO), Prefix_USE), Prefix_COUPON)

AbsentIfEmpty(t) == IF t = <<>> THEN None ELSE Some(t)

-----------------------------------------------------------------------------
(* Properties of the list aggregates                                        *)

\* the list the last get_success_rate() call was made on
RatedList ==
    IF Get(successRate).of = TxtProducts THEN Get(productList) ELSE Get(promotionList)

\* C8: get_success_rate of a ProductList or PromotionList is
\* successful / (successful + failed) when attempts have been recorded, and
\* 0.0 when both counters are 0; 8 successes and 2 failures give 0.8.
C8_SuccessRate ==
    ~IsNone(successRate) =>
        LET s == RatedList.successful_extractions
            f == RatedList.failed_extractions
            r == Get(successRate).v
        IN  /\ r.den > 0
            /\ (s >= 0 /\ f >= 0 /\ s + f > 0) => r.num * (s + f) = s * r.den
            /\ (s = 0 /\ f = 0) => r.num = 0
            /\ (s = 8 /\ f = 2) => (r.num = 4 /\ r.den = 5)

\* 8 successes and 2 failures were rated four fifths, on a list of either kind
C8_Witness ==
    /\ ~IsNone(successRate)
    /\ RatedList.successful_extractions = 8
    /\ RatedList.failed_extractions = 2
    /\ Get(successRate).v = [num |-> 4, den |-> 5]
    /\ Get(successRate).of = TxtProducts
    /\ Len(RatedList.products) > 0


-----------------------------------------------------------------------------
(* Properties of normalize_url                                              *)

\* C9 as stated: normalize_url is idempotent: normalising its own output
\* returns that output unchanged.
C9_NormalizeIdempotent ==
    (~IsNone(urlB) /\ IsNone(Get(urlB).parts)) =>
        (~Get(normB).raised /\ Get(normB).v = Get(normA).v)

ExplicitDefaultPort(u) ==
    IF u.pre = TxtHttp \o TxtSep THEN <<":", "8", "0">>
    ELSE IF u.pre = TxtHttps \o TxtSep THEN <<":", "4", "4", "3">>
    ELSE <<>>

\* b is a with the default port of a's scheme written out
AddsDefaultPort(a, b) ==
    /\ a.port = <<>>
    /\ ExplicitDefaultPort(a) # <<>>
    /\ a.host # <<>>
    /\ b = [a EXCEPT !.port = ExplicitDefaultPort(a)]

\* b is a with one slash put after a path that is not the root and does not
\* end in a slash
AddsTrailingSlash(a, b) ==
    /\ a.path # <<>>
    /\ a.path[Len(a.path)] # "/"
    /\ a.host # <<>>
    /\ a.port \in {<<>>, <<":", "8", "0">>, <<":", "4", "4", "3">>, <<":", "8", "0", "8", "0">>}
    /\ b = [a EXCEPT !.path = a.path \o <<"/">>]

\* C10 as stated: two URLs that differ only in the presence of the scheme's
\* default port, or in a single trailing slash on a non-root path, normalise to
\* the same string, whatever the letter case of the host and with or without
\* user-info.
C10_VariantsNormalizeAlike ==
    (~IsNone(urlB) /\ ~IsNone(Get(urlB).parts)) =>
        LET a == Get(Get(urlA).parts)
            b == Get(Get(urlB).parts)
        IN  (AddsDefaultPort(a, b) \/ AddsDefaultPort(b, a)
               \/ AddsTrailingSlash(a, b) \/ AddsTrailingSlash(b, a))
            => (~Get(normA).raised /\ normA = normB)


-----------------------------------------------------------------------------
(* Properties of the record names and of is_currently_active                *)

\* no leading, trailing or repeated whitespace
IsCollapsed(t) ==
    /\ t # <<>> => (t[1] \notin Spaces /\ t[Len(t)] \notin Spaces)
    /\ \A i \in 1..(Len(t) - 1) : ~(t[i] \in Spaces /\ t[i + 1] \in Spaces)

\* the text has fewer than two characters other than whitespace runs: it is
\* absent, empty, or collapses to at most one character
CollapsesBelowTwo(raw) ==
    IsNone(raw) \/ Len(CollapseWhitespace(Get(raw))) < 2

\* C19: the product_name of every constructed Product and the promo_title of
\* every constructed Promotion is whitespace-collapsed and 2 to 500 characters
\* long, also after a successful assignment; an input that is empty or collapses
\* to fewer than 2 characters fails construction.
C19_NamesCollapsed ==
    /\ ~IsNone(product) =>
          /\ IsCollapsed(Get(product).product_name)
          /\ Len(Get(product).product_name) >= 2
          /\ Len(Get(product).product_name) <= 500
    /\ ~IsNone(promotion) =>
          /\ IsCollapsed(Get(promotion).promo_title)
          /\ Len(Get(promotion).promo_title) >= 2
          /\ Len(Get(promotion).promo_title) <= 500
    /\ (ProductJustConstructed /\ CollapsesBelowTwo(productInput.product_name))
          => (IsNone(product) /\ "product_name" \in productError)
    /\ (PromotionJustConstructed /\ CollapsesBelowTwo(promoInput.promo_title))
          => (IsNone(promotion) /\ "promo_title" \in promoError)

\* a title given with stray whitespace was assigned and is stored collapsed
C19_Witness ==
    /\ ~IsNone(promotion)
    /\ promoAssigns > 0
    /\ promoError = {}
    /\ Get(promotion).promo_title = <<"A", " ", "B">>
    /\ Get(promotion).promo_title # Get(promoInput.promo_title)

-----------------------------------------------------------------------------
(* Properties of parse_date                                                 *)

ParsedDate == ~IsNone(lastCall) /\ Get(lastCall).op = "parse_date"

IsCalendarDate(y, m, d) == d <= DaysInMonth(y, m)

Midnight(y, m, d) ==
    [year |-> y, month |-> m, day |-> d, hour |-> 0, minute |-> 0, second |-> 0]

\* C11: parse_date tries ISO, US slash, EU slash, long month, abbreviated
\* month, the day-first forms and the full timestamp in that order and returns
\* the first that parses: the ISO, US-slash and long-month renderings of a
\* calendar date all parse to that date, a slash date that reads both ways is
\* read month first, and a text matching no format yields nothing.
C11_ParseDatePriority ==
    ParsedDate =>
        LET c == Get(lastCall)
        IN  /\ (c.style \in {"iso", "us", "long", "abbr", "day_long", "day_abbr", "loose"}
                  /\ IsCalendarDate(c.year, c.month, c.day))
               => c.result = Some(Midnight(c.year, c.month, c.day))
            /\ (c.style = "eu" /\ IsCalendarDate(c.year, c.month, c.day)) =>
                  c.result = IF c.day <= 12
                             THEN (IF IsCalendarDate(c.year, c.day, c.month)
                                   THEN Some(Midnight(c.year, c.day, c.month)) ELSE None)
                             ELSE Some(Midnight(c.year, c.month, c.day))
            /\ (c.style = "stamp" /\ IsCalendarDate(c.year, c.month, c.day)) =>
                  c.result = Some([Midnight(c.year, c.month, c.day) EXCEPT
                                      !.hour = 10, !.minute = 30, !.second = 45])
            /\ (c.style \notin {"none", "eu"} /\ ~IsCalendarDate(c.year, c.month, c.day))
               => IsNone(c.result)
            /\ c.style = "none" => IsNone(c.result)

\* a US-slash date that also reads as day/month was parsed month first
C11_Witness ==
    /\ ParsedDate
    /\ Get(lastCall).style = "us"
    /\ Get(lastCall).month = 3
    /\ Get(lastCall).day = 4
    /\ Get(lastCall).result = Some(Midnight(Get(lastCall).year, 3, 4))


-----------------------------------------------------------------------------
(* Properties of validate_time_constraint                                   *)

ValidatedTime == ~IsNone(lastCall) /\ Get(lastCall).op = "validate_time_constraint"

\* the half-seconds an enabled competitor is estimated
\* to take: pages * (2 * delay + 1), delay read in seconds
HalfSeconds(c) ==
    IF c.enabled
    THEN (c.new_urls + c.promo_urls) * (1 + Min(c.depth - 1, c.limit \div 10))
            * ((2 * c.delay) \div Mills(1) + 1)
    ELSE 0

RECURSIVE TotalHalfSeconds(_)
TotalHalfSeconds(cfg) ==
    IF cfg = <<>> THEN 0 ELSE HalfSeconds(Head(cfg)) + TotalHalfSeconds(Tail(cfg))

HasPart(message, part) == message.says = part

\* C18: validate_time_constraint(max_minutes) answers ok exactly when the sum
\* of get_estimated_time_minutes() over the enabled competitors is at most
\* max_minutes (equality passes, disabled competitors add nothing, the default
\* is 80); the message says "within limit" when ok and "exceeds limit" when not.
C18_TimeConstraint ==
    ValidatedTime =>
        LET c == Get(lastCall)
            within == TotalHalfSeconds(c.on) <= 120 * c.max_minutes
        IN  /\ c.result.ok = within
            /\ c.defaulted => c.max_minutes = 80
            /\ HasPart(c.result.message, "within limit") = within
            /\ HasPart(c.result.message, "exceeds limit") = ~within

\* an estimate equal to the limit passed, a disabled competitor left out
C18_Witness ==
    /\ ValidatedTime
    /\ TotalHalfSeconds(Get(lastCall).on) = 120 * Get(lastCall).max_minutes
    /\ \E i \in 1..Len(Get(lastCall).on) : ~Get(lastCall).on[i].enabled
    /\ Get(lastCall).result.ok


-----------------------------------------------------------------------------
(* Properties of the pipeline run                                           *)

Exited == pc = "exit"
Completed == pc = "exit" /\ runResult = Some(TRUE)
\* the run has credentials and a competitor file with a non-empty list
Loaded == scenario.credentials /\ scenario.file = "ok"

EventsOf(kinds, i) ==
    {j \in 1..Len(events) : events[j].kind \in kinds /\ events[j].competitor = i}
Count(kinds, i) == Cardinality(EventsOf(kinds, i))

\* C17: with the competitor file missing, without a competitors key, with
\* competitors that is no list or an empty list, or without credentials, the
\* loader raises and the run ends in failure: no fetch, no extraction and no
\* CSV write is made.
C17_BrokenConfigFails ==
    ~Loaded =>
        /\ events = <<>>
        /\ inFlight = 0
        /\ product_csv = None /\ promotion_csv = None
        /\ all_products = <<>> /\ all_promotions = <<>>
        /\ pc \in {"main", "load", "exit"}
        /\ runResult # Some(TRUE)
        /\ Exited => runResult = Some(FALSE)

\* a run with credentials whose competitors list is empty has ended in failure
C17_Witness ==
    /\ scenario.credentials
    /\ scenario.file = "empty"
    /\ Exited
    /\ runResult = Some(FALSE)


Exporting == pc \in {"summary", "exit"} /\ Loaded
ExportEvents == {j \in 1..Len(events) : events[j].kind \in {"export", "export_error"}}

\* with n >= 1 configured competitors, each is processed exactly once before
\* the export, for every n
C16_EachCompetitorOnce ==
    Exporting =>
        \A i \in 1..Len(scenario.competitors) :
            /\ Count({"process"}, i) = 1
            /\ \A j \in EventsOf({"process"}, i) : \A k \in ExportEvents : j < k

\* C16: with n >= 1 configured competitors, each of the first two is processed
\* exactly once before the export and no later one is processed at all.
C16_FirstTwoOnce ==
    /\ Loaded => \A i \in 1..Len(scenario.competitors) : Count({"process"}, i) <= 1
    /\ Exporting =>
          \A i \in 1..Len(scenario.competitors) :
              /\ Count({"process"}, i) = IF i <= CompetitorLimit THEN 1 ELSE 0
              /\ \A j \in EventsOf({"process"}, i) : \A k \in ExportEvents : j < k

\* a run over three configured competitors has completed, the third unprocessed
C16_Witness ==
    /\ Completed
    /\ Len(scenario.competitors) = 3
    /\ Count({"process"}, 1) = 1
    /\ Count({"process"}, 2) = 1
    /\ Count({"process"}, 3) = 0


\* the URLs of the fetches made for competitor i, in the order made
RECURSIVE FetchedFrom(_, _)
FetchedFrom(i, k) ==
    IF k > Len(events) THEN <<>>
    ELSE (IF events[k].kind = "fetch" /\ events[k].competitor = i
          THEN <<events[k].url>> ELSE <<>>) \o FetchedFrom(i, k + 1)

\* the first new_urls, then the first promo_urls, of the i-th configured competitor
UrlsInOrder(i) ==
    LET c == scenario.competitors[i]
    IN  Upto(c.new_urls, Min(3, Len(c.new_urls))) \o Upto(c.promo_urls, Min(2, Len(c.promo_urls)))

IsPrefix(a, b) == Len(a) <= Len(b) /\ Upto(b, Len(a)) = a

\* C15: at most one fetch is in flight; competitors are taken in list order,
\* one competitor's fetches and extractions all made before the next one's
\* first fetch; a competitor's URLs are fetched one at a time, new_urls then
\* promo_urls, each fetch followed by a pause of one second.
C15_Sequential ==
    Loaded =>
        /\ inFlight <= 1
        /\ \A j, k \in 1..Len(events) :
              (j < k /\ events[j].competitor > 0 /\ events[k].competitor > 0)
                 => events[j].competitor <= events[k].competitor
        /\ \A j, k \in 1..Len(events) :
              (j < k /\ events[j].competitor = events[k].competitor
                     /\ events[j].kind \in {"extract_products", "extract_promotions"})
                 => events[k].kind # "fetch"
        /\ \A i \in 1..Len(scenario.competitors) :
              /\ IsPrefix(FetchedFrom(i, 1), UrlsInOrder(i))
              /\ Count({"processed", "failed"}, i) = 1 => FetchedFrom(i, 1) = UrlsInOrder(i)
        /\ \A j \in 1..Len(events) :
              events[j].kind = "fetch" =>
                 /\ j = Len(events) => pc \in {"fetching", "pause"}
                 /\ j < Len(events) => events[j + 1] = Event("sleep", events[j].competitor,
                                                             events[j].url, 1)
        /\ inFlight = 1 <=> pc = "fetching"

\* two competitors were processed one after the other, four fetches in all,
\* each followed by its pause
C15_Witness ==
    /\ Completed
    /\ Count({"processed"}, 1) = 1
    /\ Count({"processed"}, 2) = 1
    /\ Count({"fetch"}, 1) = 2
    /\ Count({"fetch"}, 2) = 2
    /\ Count({"sleep"}, 1) + Count({"sleep"}, 2) = 4


\* the extractions made so far for the current competitor were of pages that
\* were fetched with success and have content
ExtractedOnlyUsable ==
    \A j \in EventsOf({"extract_products", "extract_promotions"}, cur) :
        \E k \in 1..Len(scraped) : scraped[k].url = events[j].url /\ page_usable(scraped[k])

FetchEvents == {j \in 1..Len(events) : events[j].kind = "fetch"}

\* once the configuration has loaded, no failed fetch, extraction or competitor
\* aborts the run: failed pages are skipped, every competitor is still
\* processed, the export is reached and the run reports completion; no URL is
\* fetched more than once
C14_EveryCompetitorSurvives ==
    Loaded =>
        /\ runResult # Some(FALSE)
        /\ ExtractedOnlyUsable
        /\ Exporting => /\ \A i \in 1..Len(scenario.competitors) : Count({"process"}, i) = 1
                        /\ ExportEvents # {}
        /\ Exited => runResult = Some(TRUE)
        /\ \A j, k \in FetchEvents : j # k => events[j].url # events[k].url

C14_Safe ==
    Loaded =>
        /\ runResult # Some(FALSE)
        /\ ExtractedOnlyUsable
        /\ Exporting =>
              /\ \A i \in 1..Min(2, Len(scenario.competitors)) : Count({"process"}, i) = 1
              /\ ExportEvents # {}
        /\ Exited => runResult = Some(TRUE)
        /\ \A i \in 1..Len(scenario.competitors) : IsPrefix(FetchedFrom(i, 1), UrlsInOrder(i))

\* C14: once the configuration has loaded with at least one competitor, no
\* failed fetch, failed extraction or failed competitor aborts the run: failed
\* pages are skipped, each of the first two competitors is still processed,
\* the export is reached and the run ends reporting completion; each listed URL
\* among those scraped is fetched once, without retry.
C14_FailuresNeverAbort == [](C14_Safe) /\ (Loaded ~> Completed)

\* a run completed although its first competitor failed and a fetch of its
\* second competitor failed
C14_Witness ==
    /\ Completed
    /\ Count({"failed"}, 1) = 1
    /\ Count({"processed"}, 2) = 1
    /\ \E k \in 1..Len(scraped) : scraped[k].status = "failed"
    /\ ExportEvents # {}


\* one competitor with one new URL and one promotion URL, every fetch a
\* success with markdown, every extraction answered with one dict, the export
\* without error
OneOfEachRun ==
    /\ Completed
    /\ Len(scenario.competitors) = 1
    /\ Len(scenario.competitors[1].new_urls) = 1
    /\ Len(scenario.competitors[1].promo_urls) = 1
    /\ \A k \in 1..Len(scraped) : page_usable(scraped[k])
    /\ \A j \in EventsOf({"extract_products", "extract_promotions"}, 1) : events[j].n = 1
    /\ \A j \in ExportEvents : events[j].kind = "export"

\* C12: with one new URL and one promotion URL, scrapes that succeed with
\* markdown and an extractor that returns one dict per extraction, exactly one
\* product and one promotion are collected and each CSV gets exactly one row,
\* for every choice of the two URLs.
C12_OneProductOnePromotion ==
    OneOfEachRun =>
        /\ Len(all_products) = 1
        /\ Len(all_promotions) = 1
        /\ ~IsNone(product_csv) /\ Len(Get(product_csv)) = 1
        /\ ~IsNone(promotion_csv) /\ Len(Get(promotion_csv)) = 1

\* the rows written come from dicts that validate as Product and as Promotion
RowsAreValidated ==
    /\ ~IsNone(product_csv) =>
          /\ Get(product_csv) = CsvRows(product_columns, all_products, today)
          /\ \A i \in 1..Len(all_products) : ProductErrors(all_products[i], today) = {}
    /\ ~IsNone(promotion_csv) =>
          /\ Get(promotion_csv) = CsvRows(promotion_columns, all_promotions, today)
          /\ \A i \in 1..Len(all_promotions) :
                PromotionResult(all_promotions[i], today).bad = {}

\* C13: every row handed to the CSV writer is the CSV projection of a record
\* that passed Product or Promotion validation; a raw dict that fails it (no
\* product_url, a negative price, a one-character name) is skipped.
C13_OnlyValidatedRows == Loaded => RowsAreValidated


-----------------------------------------------------------------------------
(* Properties of Promotion under assignment                                 *)

\* C26: the cross-field rules hold in every reachable record state, after any
\* successful assignments too: end_date is not before start_date when both are
\* present, and discount_value is at most 100 when promo_type is percentage_off.
C26_CrossFieldAlways ==
    ~IsNone(promotion) =>
        LET p == Get(promotion)
        IN  /\ (~IsNone(p.start_date) /\ ~IsNone(p.end_date))
                  => Get(p.end_date) >= Get(p.start_date)
            /\ (p.promo_type = Type_PERCENTAGE_OFF /\ ~IsNone(p.discount_value))
                  => Get(p.discount_value) <= Mills(100)

\* C28: the promo_code stored in a constructed Promotion never begins with
\* CODE:, PROMO:, USE: or COUPON:, so cleaning a stored code again leaves it
\* unchanged, whatever prefixes the input carried and in whatever order.
C28_StoredCodeHasNoPrefix ==
    (~IsNone(promotion) /\ ~IsNone(Get(promotion).promo_code)) =>
        LET code == Get(Get(promotion).promo_code)
        IN  /\ \A prefix \in {Prefix_CODE, Prefix_PROMO, Prefix_USE, Prefix_COUPON} :
                  ~StartsWith(code, prefix)
            /\ validate_promo_code(Some(code)) = Ok(Some(code))


-----------------------------------------------------------------------------
(* Properties of the lists                                                  *)

RECURSIVE HowMany(_, _, _)
\* the number of records of ps from the k-th on that are of the kind asked for:
\* currently active, or of a given status
HowMany(ps, k, kind) ==
    IF k > Len(ps) THEN 0
    ELSE (IF (IF kind = "active" THEN is_currently_active(ps[k], today)
              ELSE ps[k].status = kind)
          THEN 1 ELSE 0) + HowMany(ps, k + 1, kind)

AfterAddPromotion(old, new) ==
    /\ Len(new.promotions) = Len(old.promotions) + 1
    /\ Upto(new.promotions, Len(old.promotions)) = old.promotions
    /\ new.total_promotions = Len(new.promotions)
    /\ new.active_promotions = HowMany(new.promotions, 1, "active")
    /\ new.upcoming_promotions = HowMany(new.promotions, 1, Status_UPCOMING)
    /\ new.expired_promotions = HowMany(new.promotions, 1, Status_EXPIRED)

\* C22: after every add_promotion call the list keeps the earlier records in
\* order with the new one last, total_promotions is the number of records,
\* active_promotions the number that are currently active, upcoming_promotions
\* and expired_promotions the numbers with those statuses, each counted over
\* the whole sequence.
C22_AddPromotionRecounts ==
    [][(~IsNone(promotionList) /\ promotionList' # promotionList)
          => AfterAddPromotion(Get(promotionList), Get(promotionList'))]_vars

\* a list holds two records after two adds, one of them currently active
C22_Witness ==
    /\ ~IsNone(promotionList)
    /\ Len(Get(promotionList).promotions) = 2
    /\ Get(promotionList).total_promotions = 2
    /\ Get(promotionList).active_promotions = 1
    /\ Get(promotionList).upcoming_promotions + Get(promotionList).expired_promotions >= 1

\* C27: in every reachable state of a ProductList or PromotionList, the state
\* right after construction with an explicit counter value included, the
\* total count equals the number of records.
C27_TotalIsLength ==
    /\ ~IsNone(productList) =>
          Get(productList).total_products = Len(Get(productList).products)
    /\ ~IsNone(promotionList) =>
          Get(promotionList).total_promotions = Len(Get(promotionList).promotions)


-----------------------------------------------------------------------------
(* Properties of the routing of pages                                       *)

\* the URLs of the extractions of one kind made for competitor i, in order
RECURSIVE ExtractedUrls(_, _, _)
ExtractedUrls(kind, i, k) ==
    IF k > Len(events) THEN <<>>
    ELSE (IF events[k].kind = kind /\ events[k].competitor = i
          THEN <<events[k].url>> ELSE <<>>) \o ExtractedUrls(kind, i, k + 1)

\* the URLs of the usable pages among scraped[from..to], in order
RECURSIVE UsableUrls(_, _)
UsableUrls(from, to) ==
    IF from > to THEN <<>>
    ELSE (IF page_usable(scraped[from]) THEN <<scraped[from].url>> ELSE <<>>)
            \o UsableUrls(from + 1, to)

\* C30: pages are routed by the list their URL was configured in: product
\* extraction is called exactly for the successfully fetched pages of new_urls
\* and promotion extraction exactly for those of promo_urls, whatever text the
\* URL holds and also when one URL is in both lists.
C30_RoutedByList ==
    (Loaded /\ pc = "competitor" /\ cur > 1 /\ Count({"processed"}, cur - 1) = 1) =>
        LET c == scenario.competitors[cur - 1]
            n == Min(3, Len(c.new_urls))
        IN  /\ ExtractedUrls("extract_products", cur - 1, 1) = UsableUrls(1, n)
            /\ ExtractedUrls("extract_promotions", cur - 1, 1) = UsableUrls(n + 1, Len(scraped))


-----------------------------------------------------------------------------
(* Properties of the Competitor estimates                                   *)

Estimated == ~IsNone(lastCall) /\ Get(lastCall).op = "estimate"

\* limit // 10: the q with 10 q <= limit < 10 q + 10
Tens(limit) == CHOOSE q \in 0..limit : 10 * q <= limit /\ limit < 10 * q + 10

\* C21: get_estimated_pages() is url_count + url_count * min(depth - 1,
\* limit // 10) with url_count = len(new_urls) + len(promo_urls), and
\* get_estimated_time_minutes() is (pages * delay + pages * 0.5) / 60, which
\* is strictly positive for every valid Competitor.
C21_EstimateFormulas ==
    Estimated =>
        LET e == Get(lastCall)
            c == e.on
            url_count == c.new_urls + c.promo_urls
            extra == IF c.depth - 1 <= Tens(c.limit) THEN c.depth - 1 ELSE Tens(c.limit)
        IN  /\ e.pages = url_count + url_count * extra
            \* minutes * 60 = pages * delay + pages * 0.5, the seconds in thousandths
            /\ e.minutes.num * 60 * 1000 = (e.pages * c.delay + e.pages * 500) * e.minutes.den
            /\ e.minutes.num > 0 /\ e.minutes.den > 0

\* a competitor whose limit // 10 is below depth - 1
C21_Witness ==
    /\ Estimated
    /\ Get(lastCall).on.depth = 5
    /\ Get(lastCall).on.limit = 19
    /\ Get(lastCall).on.new_urls = 2 /\ Get(lastCall).on.promo_urls = 1
    /\ Get(lastCall).pages = 6

\* C29: for every valid Competitor get_estimated_pages() is at least the URL
\* count and at most url_count * limit.
C29_PagesWithinLimit ==
    Estimated =>
        LET e == Get(lastCall)
            url_count == e.on.new_urls + e.on.promo_urls
        IN  /\ e.pages >= url_count
            /\ e.pages <= url_count * e.on.limit

\* a deep crawl with a page limit of one is estimated at the URL count
C29_Witness ==
    /\ Estimated
    /\ Get(lastCall).on.depth = 5
    /\ Get(lastCall).on.limit = 1
    /\ Get(lastCall).pages = Get(lastCall).on.new_urls + Get(lastCall).on.promo_urls


-----------------------------------------------------------------------------
(* Properties of TextValidator                                              *)

Cleaned == ~IsNone(lastCall) /\ Get(lastCall).op = "clean_text"

\* C25: for every input string the output of clean_text contains no control
\* character, has no leading or trailing whitespace and contains no run of
\* two or more whitespace characters, also when control characters sit
\* between or next to spaces in the input.
C25_CleanTextIsClean ==
    Cleaned =>
        LET out == Get(lastCall).result
        IN  /\ \A i \in 1..Len(out) : out[i] \notin ControlChars
            /\ out # <<>> => (out[1] \notin Spaces /\ out[Len(out)] \notin Spaces)
            /\ \A i \in 1..(Len(out) - 1) : ~(out[i] \in Spaces /\ out[i + 1] \in Spaces)


-----------------------------------------------------------------------------
(* Properties of DataQualityValidator                                       *)

Called(op) == ~IsNone(lastCall) /\ Get(lastCall).op = op

\* C23: validate_product_data and validate_promotion_data never raise for any
\* raw dictionary, whatever keys are missing and whatever the value types
\* are: every defect is reported as a message in the returned list.
C23_ValidationNeverRaises ==
    (Called("validate_product_data") \/ Called("validate_promotion_data")) =>
        ~Get(lastCall).result.raised

\* C24: calculate_quality_score returns max(0, (N - v) / N) where v is the
\* number of violation messages and N is 8 for data_type product and 7 for
\* promotion; the result is within [0, 1], is 1 exactly when there are no
\* violations, and is 0.0 for any other data_type.  (v is the length of the
\* list the validation of the data returns.)
C24_QualityScore ==
    (Called("calculate_quality_score") /\ ~Get(lastCall).result.raised) =>
        LET call == Get(lastCall)
            r == call.result.v
            errors == IF call.data_type = "product" THEN validate_product_data(call.data)
                      ELSE validate_promotion_data(call.data)
            N == IF call.data_type = "product" THEN 8 ELSE 7
            v == Len(errors.v)
        IN  /\ r.den > 0 /\ 0 <= r.num /\ r.num <= r.den
            /\ call.data_type \notin {"product", "promotion"} => r.num = 0
            /\ call.data_type \in {"product", "promotion"} =>
                  /\ r.num * N = (IF N - v < 0 THEN 0 ELSE N - v) * r.den
                  /\ (r.num = r.den) <=> (v = 0)

\* a promotion dictionary with two violations scores 5/7
C24_Witness ==
    /\ Called("calculate_quality_score")
    /\ Get(lastCall).data_type = "promotion"
    /\ ~Get(lastCall).result.raised
    /\ Get(lastCall).result.v = [num |-> 5, den |-> 7]

====
